---- MODULE Spec2Model ----
(***************************************************************************)
(* Card-tree subsystem of the jank forum: the REST handlers of             *)
(* app/handlers_api.go, the batch payload resolver applyCardTreePayload of *)
(* app/handlers_assets.go, and the tree store and tree assembler they      *)
(* call.  The store and the assembler are not among the source files; they *)
(* are modelled from the design document (spec.md, sections 3, 4.1, 4.3).  *)
(***************************************************************************)
EXTENDS Integers, Sequences, FiniteSets, TLC

(***************************************************************************)
(* Bounds of the model.                                                    *)
(***************************************************************************)
\* node rows the REST specification may allocate
MaxNodes == 2
\* tree rows the REST specification may allocate
MaxTrees == 2
\* annotation rows the REST specification may allocate
MaxAnnos == 1
\* node descriptors in one batch payload (all its trees together)
MaxDesc == 3
\* trees in one batch payload
MaxPayloadTrees == 2
\* node ids of the stored node sets the assembler is applied to
MaxViewNodes == 3

\* a nil *int (parent_id, source_post_id); real row ids start at 1
NULL == 0
\* a nil *string (parent_temp_id absent from the JSON document)
NoTemp == "<nil>"
\* a nil error
NoErr == "<nil>"

Positions == {0, 1}
\* the positions the requests of the REST specification carry
ApiPositions == {0}
TreeIds == 1..MaxTrees
NodeIds == 1..MaxNodes
AnnoIds == 1..MaxAnnos
Procs == {1, 2}

(***************************************************************************)
(* strings.TrimSpace on the strings of the model: it removes leading and   *)
(* trailing white space.                                                   *)
(***************************************************************************)
TrimSpace(s) ==
    CASE s = " " -> ""
      [] s = " a" -> "a"
      [] s = "a " -> "a"
      [] s = " X" -> "X"
      [] s = " n " -> "n"
      [] OTHER -> s

(***************************************************************************)
(* TreeStore: the rows of the backing store and the store calls.           *)
(* db.trees, db.nodes, db.annos are the three tables; db.nextTree,         *)
(* db.nextNode, db.nextAnno are the next ids the store assigns;            *)
(* db.nextThread and db.nextPost are those of the threads and posts, which *)
(* are never deleted: thread and post ids 1..next-1 exist.                 *)
(***************************************************************************)
EmptyDB ==
    [trees |-> {}, nodes |-> {}, annos |-> {},
     nextTree |-> 1, nextNode |-> 1, nextAnno |-> 1, nextThread |-> 1, nextPost |-> 1,
     boards |-> {}, nextBoard |-> 1, users |-> {}]

NodeRow(d, id) == CHOOSE n \in d.nodes : n.id = id
HasNode(d, id) == \E n \in d.nodes : n.id = id
HasTree(d, id) == \E t \in d.trees : t.id = id
HasAnno(d, id) == \E a \in d.annos : a.id = id

\* createTree(scopeType, scopeID, title, description, creator, isPrimary):
\* ValidationError when the title is empty, else a new row with a fresh id.
createCardTree(d, scopeType, scopeID, title, isPrimary) ==
    IF title = ""
    THEN [db |-> d, id |-> NULL, err |-> "title is required"]
    ELSE [db |-> [d EXCEPT !.trees = @ \cup {[id |-> d.nextTree, scope_type |-> scopeType,
                                              scope_id |-> scopeID, title |-> title,
                                              is_primary |-> isPrimary]},
                           !.nextTree = @ + 1],
          id |-> d.nextTree, err |-> NoErr]

\* createNode(treeID, parentID?, cardName, position, creator): ValidationError
\* when the card name is empty; the parent is not checked against the tree.
createCardTreeNode(d, treeID, parentID, cardName, position) ==
    IF cardName = ""
    THEN [db |-> d, id |-> NULL, err |-> "card name is required"]
    ELSE [db |-> [d EXCEPT !.nodes = @ \cup {[id |-> d.nextNode, tree_id |-> treeID,
                                              parent_id |-> parentID, card_name |-> cardName,
                                              position |-> position]},
                           !.nextNode = @ + 1],
          id |-> d.nextNode, err |-> NoErr]

\* getNodeTreeID(nodeID): the owning tree of a node, NotFound when absent.
getCardTreeNodeTreeID(d, nodeID) ==
    IF HasNode(d, nodeID)
    THEN [treeID |-> NodeRow(d, nodeID).tree_id, err |-> NoErr]
    ELSE [treeID |-> NULL, err |-> "not found"]

\* updateNode(nodeID, parentID?, cardName, position): NotFound when absent;
\* tree_id is immutable.
updateCardTreeNode(d, nodeID, parentID, cardName, position) ==
    IF ~HasNode(d, nodeID)
    THEN [db |-> d, err |-> "not found"]
    ELSE [db |-> [d EXCEPT !.nodes = (@ \ {NodeRow(d, nodeID)}) \cup
                               {[NodeRow(d, nodeID) EXCEPT !.parent_id = parentID,
                                                           !.card_name = cardName,
                                                           !.position = position]}],
          err |-> NoErr]

\* deleteNode(nodeID): deletes the single row, no cascade to children or
\* annotations.
deleteCardTreeNode(d, nodeID) ==
    [db |-> [d EXCEPT !.nodes = {n \in @ : n.id # nodeID}], err |-> NoErr]

\* createAnnotation(nodeID, kind, body, label, tags, sourcePostID?, creator):
\* ValidationError when the body is empty.
createCardTreeAnnotation(d, nodeID, kind, body) ==
    IF body = ""
    THEN [db |-> d, id |-> NULL, err |-> "body is required"]
    ELSE [db |-> [d EXCEPT !.annos = @ \cup {[id |-> d.nextAnno, node_id |-> nodeID,
                                              kind |-> kind, body |-> body]},
                           !.nextAnno = @ + 1],
          id |-> d.nextAnno, err |-> NoErr]

\* createThread and createPost insert one row each
createThread(d) == [db |-> [d EXCEPT !.nextThread = @ + 1], id |-> d.nextThread]
createPost(d) == [db |-> [d EXCEPT !.nextPost = @ + 1], id |-> d.nextPost]

\* deleteAnnotation(annotationID): deletes the single row.
deleteCardTreeAnnotation(d, annotationID) ==
    [db |-> [d EXCEPT !.annos = {a \in @ : a.id # annotationID}], err |-> NoErr]

(***************************************************************************)
(* TreeAssembler: the flattened, depth-annotated ordering of one tree.     *)
(***************************************************************************)
TreeNodes(d, treeID) == {n \in d.nodes : n.tree_id = treeID}

\* n sorts before m among siblings: position ascending, ties by id ascending
SiblingBefore(n, m) ==
    \/ n.position < m.position
    \/ n.position = m.position /\ n.id < m.id

RECURSIVE SortSiblingsById(_)
\* SortSiblings ordering by id alone
SortSiblingsById(S) ==
    IF S = {} THEN <<>>
    ELSE LET first == CHOOSE n \in S : \A m \in S : n.id <= m.id
         IN  <<first>> \o SortSiblingsById(S \ {first})

RECURSIVE SortSiblings(_)
SortSiblings(S) ==
    IF S = {} THEN <<>>
    ELSE LET first == CHOOSE n \in S : \A m \in S \ {n} : SiblingBefore(n, m)
         IN  <<first>> \o SortSiblings(S \ {first})

\* the annotations of a node in creation order
RECURSIVE NodeAnnotations(_)
NodeAnnotations(S) ==
    IF S = {} THEN <<>>
    ELSE LET first == CHOOSE a \in S : \A b \in S : a.id <= b.id
         IN  <<first>> \o NodeAnnotations(S \ {first})

\* the nodes the traversal starts from: no parent, or a parent that is not a
\* node of this tree
RootNodes(ns) ==
    {n \in ns : n.parent_id = NULL \/ ~\E p \in ns : p.id = n.parent_id}

ChildNodes(ns, parent) == {n \in ns : n.parent_id = parent.id}

RECURSIVE WalkNodesFlat(_, _, _, _)
\* WalkNodes giving the children the depth of their parent
WalkNodesFlat(d, ns, todo, depth) ==
    IF todo = <<>> THEN <<>>
    ELSE LET n == Head(todo)
             row == [id |-> n.id, tree_id |-> n.tree_id, parent_id |-> n.parent_id,
                     card_name |-> n.card_name, position |-> n.position,
                     depth |-> depth, indent |-> depth,
                     annotations |-> NodeAnnotations({a \in d.annos : a.node_id = n.id})]
         IN  <<row>> \o WalkNodesFlat(d, ns, SortSiblings(ChildNodes(ns, n)), depth)
                     \o WalkNodesFlat(d, ns, Tail(todo), depth)

RECURSIVE WalkNodes(_, _, _, _)
\* pre-order walk of the sequence todo of sibling nodes at the given depth
WalkNodes(d, ns, todo, depth) ==
    IF todo = <<>> THEN <<>>
    ELSE LET n == Head(todo)
             row == [id |-> n.id, tree_id |-> n.tree_id, parent_id |-> n.parent_id,
                     card_name |-> n.card_name, position |-> n.position,
                     depth |-> depth, indent |-> depth,
                     annotations |-> NodeAnnotations({a \in d.annos : a.node_id = n.id})]
         IN  <<row>> \o WalkNodes(d, ns, SortSiblings(ChildNodes(ns, n)), depth + 1)
                     \o WalkNodes(d, ns, Tail(todo), depth)

AssembleTree(d, treeID) ==
    LET ns == TreeNodes(d, treeID)
    IN  WalkNodes(d, ns, SortSiblings(RootNodes(ns)), 0)

\* getTree(treeID): the tree with nodes and annotations populated, NotFound
\* when absent.
getCardTreeByID(d, treeID) ==
    IF HasTree(d, treeID)
    THEN [nodes |-> AssembleTree(d, treeID), err |-> NoErr]
    ELSE [nodes |-> <<>>, err |-> "not found"]

(***************************************************************************)
(* TreeAPI: the REST handlers.  Each takes the store d and the parts of    *)
(* the request it reads, and gives the store it leaves and its answer.     *)
(* auth: getBearerUsername accepted the bearer token; decodeOK: the JSON   *)
(* body decoded; storeOK: the backing store carried out the write.         *)
(***************************************************************************)
Answer(d, kind, status, msg, body) ==
    [db |-> d, resp |-> [kind |-> kind, status |-> status, msg |-> msg, body |-> body]]

NoResp == [kind |-> "none", status |-> 0, msg |-> "", body |-> <<>>]

\* the answer when the addressed node is absent, and when it is owned by
\* another tree than the path's
NotFoundStatus == 404
NotFoundMsg == "Node not found"
CrossTreeStatus == 400
CrossTreeMsg == "Node does not belong to tree"

\* scopeTreesPost keeping at most one primary tree per scope: a new primary
\* tree takes the flag from the trees of its scope
scopeTreesPostSinglePrimary(d, kind, scopeType, auth, decodeOK, storeOK, scopeID, title, isPrimary) ==
    IF ~auth THEN Answer(d, kind, 401, "Unauthorized", <<>>)
    ELSE IF ~decodeOK THEN Answer(d, kind, 400, "invalid JSON", <<>>)
    ELSE IF title = "" THEN Answer(d, kind, 400, "Title is required", <<>>)
    ELSE LET demoted == [d EXCEPT !.trees =
                            {IF isPrimary /\ t.scope_type = scopeType /\ t.scope_id = scopeID
                             THEN [t EXCEPT !.is_primary = FALSE] ELSE t : t \in @}]
             r == createCardTree(demoted, scopeType, scopeID, title, isPrimary)
         IN  IF ~storeOK \/ r.err # NoErr
             THEN Answer(d, kind, 500, "Failed to create tree", <<>>)
             ELSE Answer(r.db, kind, 200, "", <<r.id>>)

\* POST /boards/{boardID}/trees and POST /threads/{threadID}/trees
scopeTreesPost(d, kind, scopeType, auth, decodeOK, storeOK, scopeID, title, isPrimary) ==
    IF ~auth THEN Answer(d, kind, 401, "Unauthorized", <<>>)
    ELSE IF ~decodeOK THEN Answer(d, kind, 400, "invalid JSON", <<>>)
    ELSE IF title = "" THEN Answer(d, kind, 400, "Title is required", <<>>)
    ELSE LET r == createCardTree(d, scopeType, scopeID, title, isPrimary)
         IN  IF ~storeOK \/ r.err # NoErr
             THEN Answer(d, kind, 500, "Failed to create tree", <<>>)
             ELSE Answer(r.db, kind, 200, "", <<r.id>>)

boardTreesHandler(d, auth, decodeOK, storeOK, boardID, title, isPrimary) ==
    scopeTreesPost(d, "PostBoardTree", "board", auth, decodeOK, storeOK, boardID, title, isPrimary)

threadTreesHandler(d, auth, decodeOK, storeOK, threadID, title, isPrimary) ==
    scopeTreesPost(d, "PostThreadTree", "thread", auth, decodeOK, storeOK, threadID, title, isPrimary)

\* GET /trees/{treeID}
treeHandler(d, treeID) ==
    LET r == getCardTreeByID(d, treeID)
    IN  IF r.err # NoErr
        THEN Answer(d, "GetTree", 404, "Tree not found", <<>>)
        ELSE Answer(d, "GetTree", 200, "", r.nodes)

\* treeNodesHandler leaving the card-name check to the store
treeNodesHandlerStoreChecksName(d, auth, decodeOK, storeOK, treeID, parentID, cardName, position) ==
    IF ~auth THEN Answer(d, "PostNode", 401, "Unauthorized", <<>>)
    ELSE IF ~decodeOK THEN Answer(d, "PostNode", 400, "invalid JSON", <<>>)
    ELSE LET r == createCardTreeNode(d, treeID, parentID, cardName, position)
         IN  IF ~storeOK \/ r.err # NoErr
             THEN Answer(d, "PostNode", 500, "Failed to create node", <<>>)
             ELSE Answer(r.db, "PostNode", 200, "", <<r.id>>)

\* POST /trees/{treeID}/nodes
treeNodesHandler(d, auth, decodeOK, storeOK, treeID, parentID, cardName, position) ==
    IF ~auth THEN Answer(d, "PostNode", 401, "Unauthorized", <<>>)
    ELSE IF ~decodeOK THEN Answer(d, "PostNode", 400, "invalid JSON", <<>>)
    ELSE IF cardName = "" THEN Answer(d, "PostNode", 400, "Card name is required", <<>>)
    ELSE LET r == createCardTreeNode(d, treeID, parentID, cardName, position)
         IN  IF ~storeOK \/ r.err # NoErr
             THEN Answer(d, "PostNode", 500, "Failed to create node", <<>>)
             ELSE Answer(r.db, "PostNode", 200, "", <<r.id>>)

\* PATCH /trees/{treeID}/nodes/{nodeID}
treeNodePatch(d, auth, decodeOK, storeOK, treeID, nodeID, parentID, cardName, position) ==
    IF ~auth THEN Answer(d, "PatchNode", 401, "Unauthorized", <<>>)
    ELSE IF ~decodeOK THEN Answer(d, "PatchNode", 400, "invalid JSON", <<>>)
    ELSE IF cardName = "" THEN Answer(d, "PatchNode", 400, "Card name is required", <<>>)
    ELSE LET owner == getCardTreeNodeTreeID(d, nodeID)
         IN  IF owner.err # NoErr
             THEN Answer(d, "PatchNode", NotFoundStatus, NotFoundMsg, <<>>)
             ELSE IF owner.treeID # treeID
             THEN Answer(d, "PatchNode", CrossTreeStatus, CrossTreeMsg, <<>>)
             ELSE LET r == updateCardTreeNode(d, nodeID, parentID, cardName, position)
                  IN  IF ~storeOK \/ r.err # NoErr
                      THEN Answer(d, "PatchNode", 500, "Failed to update node", <<>>)
                      ELSE Answer(r.db, "PatchNode", 204, "", <<>>)

\* treeNodeDelete without the comparison of the owning tree with the path
treeNodeDeleteAnyTree(d, auth, storeOK, treeID, nodeID) ==
    IF ~auth THEN Answer(d, "DeleteNode", 401, "Unauthorized", <<>>)
    ELSE LET owner == getCardTreeNodeTreeID(d, nodeID)
         IN  IF owner.err # NoErr
             THEN Answer(d, "DeleteNode", NotFoundStatus, NotFoundMsg, <<>>)
             ELSE LET r == deleteCardTreeNode(d, nodeID)
                  IN  IF ~storeOK \/ r.err # NoErr
                      THEN Answer(d, "DeleteNode", 500, "Failed to delete node", <<>>)
                      ELSE Answer(r.db, "DeleteNode", 204, "", <<>>)

\* treeNodeDelete deleting the node's children and annotations with it
treeNodeDeleteCascade(d, auth, storeOK, treeID, nodeID) ==
    IF ~auth THEN Answer(d, "DeleteNode", 401, "Unauthorized", <<>>)
    ELSE LET owner == getCardTreeNodeTreeID(d, nodeID)
         IN  IF owner.err # NoErr
             THEN Answer(d, "DeleteNode", NotFoundStatus, NotFoundMsg, <<>>)
             ELSE IF owner.treeID # treeID
             THEN Answer(d, "DeleteNode", CrossTreeStatus, CrossTreeMsg, <<>>)
             ELSE LET r == deleteCardTreeNode(d, nodeID)
                      cascaded == [r.db EXCEPT
                                     !.nodes = {n \in @ : n.parent_id # nodeID},
                                     !.annos = {an \in @ : an.node_id # nodeID}]
                  IN  IF ~storeOK \/ r.err # NoErr
                      THEN Answer(d, "DeleteNode", 500, "Failed to delete node", <<>>)
                      ELSE Answer(cascaded, "DeleteNode", 204, "", <<>>)

\* DELETE /trees/{treeID}/nodes/{nodeID}
treeNodeDelete(d, auth, storeOK, treeID, nodeID) ==
    IF ~auth THEN Answer(d, "DeleteNode", 401, "Unauthorized", <<>>)
    ELSE LET owner == getCardTreeNodeTreeID(d, nodeID)
         IN  IF owner.err # NoErr
             THEN Answer(d, "DeleteNode", NotFoundStatus, NotFoundMsg, <<>>)
             ELSE IF owner.treeID # treeID
             THEN Answer(d, "DeleteNode", CrossTreeStatus, CrossTreeMsg, <<>>)
             ELSE LET r == deleteCardTreeNode(d, nodeID)
                  IN  IF ~storeOK \/ r.err # NoErr
                      THEN Answer(d, "DeleteNode", 500, "Failed to delete node", <<>>)
                      ELSE Answer(r.db, "DeleteNode", 204, "", <<>>)

\* POST /trees/{treeID}/nodes/{nodeID}/annotations
treeNodeAnnotationsHandler(d, auth, decodeOK, storeOK, treeID, nodeID, kind, body) ==
    IF ~auth THEN Answer(d, "PostAnnotation", 401, "Unauthorized", <<>>)
    ELSE LET owner == getCardTreeNodeTreeID(d, nodeID)
         IN  IF owner.err # NoErr
             THEN Answer(d, "PostAnnotation", NotFoundStatus, NotFoundMsg, <<>>)
             ELSE IF owner.treeID # treeID
             THEN Answer(d, "PostAnnotation", CrossTreeStatus, CrossTreeMsg, <<>>)
             ELSE IF ~decodeOK THEN Answer(d, "PostAnnotation", 400, "invalid JSON", <<>>)
             ELSE IF body = "" THEN Answer(d, "PostAnnotation", 400, "Body is required", <<>>)
             ELSE LET r == createCardTreeAnnotation(d, nodeID,
                                                    IF kind = "" THEN "note" ELSE kind, body)
                  IN  IF ~storeOK \/ r.err # NoErr
                      THEN Answer(d, "PostAnnotation", 500, "Failed to create annotation", <<>>)
                      ELSE Answer(r.db, "PostAnnotation", 200, "", <<r.id>>)

\* DELETE /trees/{treeID}/nodes/{nodeID}/annotations/{annotationID}: the
\* handler reads only annotationID from the path.
treeNodeAnnotationHandler(d, auth, storeOK, treeID, nodeID, annotationID) ==
    IF ~auth THEN Answer(d, "DeleteAnnotation", 401, "Unauthorized", <<>>)
    ELSE LET r == deleteCardTreeAnnotation(d, annotationID)
         IN  IF ~storeOK \/ r.err # NoErr
             THEN Answer(d, "DeleteAnnotation", 500, "Failed to delete annotation", <<>>)
             ELSE Answer(r.db, "DeleteAnnotation", 204, "", <<>>)

(***************************************************************************)
(* PayloadResolver: applyCardTreePayload, one store call per step.         *)
(* An execution e holds the locals of the call: the payload, the index ti  *)
(* of the tree being materialized, cardTree.ID, idMap, pending, remaining, *)
(* the index i into pending, progressed, createdNode.ID, the index ai into *)
(* the node's annotations, and the returned error.  e.made records the ids *)
(* of the rows this execution has written.                                 *)
(***************************************************************************)
IdleEx ==
    [pc |-> "idle", scopeType |-> "", scopeID |-> NULL, payload |-> <<>>, ti |-> 0,
     treeID |-> NULL, idMap |-> {}, pending |-> <<>>, remaining |-> <<>>, i |-> 0,
     progressed |-> FALSE, nodeID |-> NULL, ai |-> 0, err |-> NoErr,
     made |-> [trees |-> {}, nodes |-> {}, annos |-> {}]]

\* idMap, a Go map[string]int, as the set of its entries
MapHas(m, k) == \E en \in m : en.k = k
MapGet(m, k) == (CHOOSE en \in m : en.k = k).v
MapPut(m, k, v) == {en \in m : en.k # k} \cup {[k |-> k, v |-> v]}

\* applyCardTreePayload called with the payload: nil or no trees returns nil
applyStart(scopeType, scopeID, payload) ==
    IF Len(payload) = 0
    THEN [IdleEx EXCEPT !.pc = "done", !.scopeType = scopeType, !.scopeID = scopeID]
    ELSE [IdleEx EXCEPT !.pc = "tree", !.scopeType = scopeType, !.scopeID = scopeID,
                        !.payload = payload, !.ti = 1]

applyReturn(e, err) == [e EXCEPT !.pc = "done", !.err = err]

\* the outer loop moves to the next tree, or returns nil after the last
applyNextTree(e) ==
    IF e.ti = Len(e.payload)
    THEN applyReturn(e, NoErr)
    ELSE [e EXCEPT !.pc = "tree", !.ti = @ + 1]

\* applyNextNode without the progress check: a pass that resolves nothing
\* ends the tree
applyNextNodeDropsUnresolved(e) ==
    IF e.i < Len(e.pending)
    THEN [e EXCEPT !.pc = "node", !.i = @ + 1]
    ELSE IF Len(e.remaining) = 0 \/ ~e.progressed
    THEN applyNextTree(e)
    ELSE [e EXCEPT !.pc = "node", !.pending = e.remaining, !.remaining = <<>>,
                   !.progressed = FALSE, !.i = 1]

\* applyNextNode without the progress check: what is left is tried again
applyNextNodeRetriesForever(e) ==
    IF e.i < Len(e.pending)
    THEN [e EXCEPT !.pc = "node", !.i = @ + 1]
    ELSE IF Len(e.remaining) = 0
    THEN applyNextTree(e)
    ELSE [e EXCEPT !.pc = "node", !.pending = e.remaining, !.remaining = <<>>,
                   !.progressed = FALSE, !.i = 1]

\* applyNextNode with a single pass: what the pass has deferred is rejected
applyNextNodeSinglePass(e) ==
    IF e.i < Len(e.pending)
    THEN [e EXCEPT !.pc = "node", !.i = @ + 1]
    ELSE IF Len(e.remaining) > 0
    THEN applyReturn(e, "invalid tree payload")
    ELSE applyNextTree(e)

\* the end of one iteration over pending: the next descriptor, or the end of
\* the pass with its progress check
applyNextNode(e) ==
    IF e.i < Len(e.pending)
    THEN [e EXCEPT !.pc = "node", !.i = @ + 1]
    ELSE IF ~e.progressed /\ Len(e.remaining) > 0
    THEN applyReturn(e, "invalid tree payload")
    ELSE IF Len(e.remaining) = 0
    THEN applyNextTree(e)
    ELSE [e EXCEPT !.pc = "node", !.pending = e.remaining, !.remaining = <<>>,
                   !.progressed = FALSE, !.i = 1]

\* applyTree with idMap made once for the payload instead of once per tree
applyTreeSharedIdMap(e, d) ==
    LET tree == e.payload[e.ti]
        title == TrimSpace(tree.title)
    IN  IF title = ""
        THEN [ex |-> applyReturn(e, "tree title is required"), db |-> d]
        ELSE LET r == createCardTree(d, e.scopeType, e.scopeID, title, tree.is_primary)
                 e1 == [e EXCEPT !.treeID = r.id, !.made.trees = @ \cup {r.id}]
             IN  IF r.err # NoErr
                 THEN [ex |-> applyReturn(e, r.err), db |-> d]
                 ELSE IF Len(tree.nodes) = 0
                 THEN [ex |-> applyNextTree(e1), db |-> r.db]
                 ELSE [ex |-> [e1 EXCEPT !.pc = "node",
                                         !.pending = tree.nodes, !.remaining = <<>>,
                                         !.progressed = FALSE, !.i = 1],
                       db |-> r.db]

\* the head of the outer loop: the title check and createCardTree
applyTree(e, d) ==
    LET tree == e.payload[e.ti]
        title == TrimSpace(tree.title)
    IN  IF title = ""
        THEN [ex |-> applyReturn(e, "tree title is required"), db |-> d]
        ELSE LET r == createCardTree(d, e.scopeType, e.scopeID, title, tree.is_primary)
                 e1 == [e EXCEPT !.treeID = r.id, !.made.trees = @ \cup {r.id}]
             IN  IF r.err # NoErr
                 THEN [ex |-> applyReturn(e, r.err), db |-> d]
                 ELSE IF Len(tree.nodes) = 0
                 THEN [ex |-> applyNextTree(e1), db |-> r.db]
                 ELSE [ex |-> [e1 EXCEPT !.pc = "node", !.idMap = {},
                                         !.pending = tree.nodes, !.remaining = <<>>,
                                         !.progressed = FALSE, !.i = 1],
                       db |-> r.db]

\* applyNode creating a descriptor whose parent is not yet in idMap as a root
\* instead of deferring it
applyNodeUnresolvedAsRoot(e, d) ==
    LET node == e.pending[e.i]
        cardName == TrimSpace(node.card_name)
    IN  IF cardName = ""
        THEN [ex |-> applyReturn(e, "card name is required"), db |-> d]
        ELSE IF TrimSpace(node.temp_id) = ""
        THEN [ex |-> applyReturn(e, "node id is required"), db |-> d]
        ELSE LET parentID == IF /\ node.parent_temp_id # NoTemp
                                /\ TrimSpace(node.parent_temp_id) # ""
                                /\ MapHas(e.idMap, node.parent_temp_id)
                             THEN MapGet(e.idMap, node.parent_temp_id)
                             ELSE NULL
                 r == createCardTreeNode(d, e.treeID, parentID, cardName, node.position)
                 e1 == [e EXCEPT !.nodeID = r.id, !.made.nodes = @ \cup {r.id},
                                 !.idMap = MapPut(@, node.temp_id, r.id),
                                 !.progressed = TRUE]
             IN  IF r.err # NoErr
                 THEN [ex |-> applyReturn(e, r.err), db |-> d]
                 ELSE IF Len(node.annotations) = 0
                 THEN [ex |-> applyNextNode(e1), db |-> r.db]
                 ELSE [ex |-> [e1 EXCEPT !.pc = "anno", !.ai = 1], db |-> r.db]

\* applyNode taking as the parent's id the id of the row inserted last in
\* the store instead of the entry of idMap
applyNodeParentIsLastRow(e, d) ==
    LET node == e.pending[e.i]
        cardName == TrimSpace(node.card_name)
    IN  IF cardName = ""
        THEN [ex |-> applyReturn(e, "card name is required"), db |-> d]
        ELSE IF TrimSpace(node.temp_id) = ""
        THEN [ex |-> applyReturn(e, "node id is required"), db |-> d]
        ELSE IF /\ node.parent_temp_id # NoTemp
                /\ TrimSpace(node.parent_temp_id) # ""
                /\ ~MapHas(e.idMap, node.parent_temp_id)
        THEN [ex |-> applyNextNode([e EXCEPT !.remaining = Append(@, node)]), db |-> d]
        ELSE LET parentID == IF node.parent_temp_id # NoTemp
                                /\ TrimSpace(node.parent_temp_id) # ""
                             THEN d.nextNode - 1
                             ELSE NULL
                 r == createCardTreeNode(d, e.treeID, parentID, cardName, node.position)
                 e1 == [e EXCEPT !.nodeID = r.id, !.made.nodes = @ \cup {r.id},
                                 !.idMap = MapPut(@, node.temp_id, r.id),
                                 !.progressed = TRUE]
             IN  IF r.err # NoErr
                 THEN [ex |-> applyReturn(e, r.err), db |-> d]
                 ELSE IF Len(node.annotations) = 0
                 THEN [ex |-> applyNextNode(e1), db |-> r.db]
                 ELSE [ex |-> [e1 EXCEPT !.pc = "anno", !.ai = 1], db |-> r.db]

\* one descriptor of pending: validation, the parent lookup in idMap, and
\* createCardTreeNode
applyNode(e, d) ==
    LET node == e.pending[e.i]
        cardName == TrimSpace(node.card_name)
    IN  IF cardName = ""
        THEN [ex |-> applyReturn(e, "card name is required"), db |-> d]
        ELSE IF TrimSpace(node.temp_id) = ""
        THEN [ex |-> applyReturn(e, "node id is required"), db |-> d]
        ELSE IF /\ node.parent_temp_id # NoTemp
                /\ TrimSpace(node.parent_temp_id) # ""
                /\ ~MapHas(e.idMap, node.parent_temp_id)
        THEN [ex |-> applyNextNode([e EXCEPT !.remaining = Append(@, node)]), db |-> d]
        ELSE LET parentID == IF node.parent_temp_id # NoTemp
                                /\ TrimSpace(node.parent_temp_id) # ""
                             THEN MapGet(e.idMap, node.parent_temp_id)
                             ELSE NULL
                 r == createCardTreeNode(d, e.treeID, parentID, cardName, node.position)
                 e1 == [e EXCEPT !.nodeID = r.id, !.made.nodes = @ \cup {r.id},
                                 !.idMap = MapPut(@, node.temp_id, r.id),
                                 !.progressed = TRUE]
             IN  IF r.err # NoErr
                 THEN [ex |-> applyReturn(e, r.err), db |-> d]
                 ELSE IF Len(node.annotations) = 0
                 THEN [ex |-> applyNextNode(e1), db |-> r.db]
                 ELSE [ex |-> [e1 EXCEPT !.pc = "anno", !.ai = 1], db |-> r.db]

\* applyAnnotation handing the resolved parent id to the store instead of
\* createdNode.ID
applyAnnotationOnParent(e, d) ==
    LET annotation == e.pending[e.i].annotations[e.ai]
        body == TrimSpace(annotation.body)
        kind == IF TrimSpace(annotation.kind) = "" THEN "note" ELSE TrimSpace(annotation.kind)
        last == e.ai = Len(e.pending[e.i].annotations)
        after(x) == IF last THEN applyNextNode(x) ELSE [x EXCEPT !.ai = @ + 1]
        parentID == NodeRow(d, e.nodeID).parent_id
    IN  IF body = ""
        THEN [ex |-> after(e), db |-> d]
        ELSE LET r == createCardTreeAnnotation(d, IF parentID # NULL THEN parentID ELSE e.nodeID,
                                               kind, body)
             IN  IF r.err # NoErr
                 THEN [ex |-> applyReturn(e, r.err), db |-> d]
                 ELSE [ex |-> after([e EXCEPT !.made.annos = @ \cup {r.id}]), db |-> r.db]

\* one annotation descriptor of the node just created
applyAnnotation(e, d) ==
    LET annotation == e.pending[e.i].annotations[e.ai]
        body == TrimSpace(annotation.body)
        kind == IF TrimSpace(annotation.kind) = "" THEN "note" ELSE TrimSpace(annotation.kind)
        last == e.ai = Len(e.pending[e.i].annotations)
        after(x) == IF last THEN applyNextNode(x) ELSE [x EXCEPT !.ai = @ + 1]
    IN  IF body = ""
        THEN [ex |-> after(e), db |-> d]
        ELSE LET r == createCardTreeAnnotation(d, e.nodeID, kind, body)
             IN  IF r.err # NoErr
                 THEN [ex |-> applyReturn(e, r.err), db |-> d]
                 ELSE [ex |-> after([e EXCEPT !.made.annos = @ \cup {r.id}]), db |-> r.db]

\* the step of applyCardTreePayload at the position e.pc
applyCardTreePayload(e, d) ==
    CASE e.pc = "tree" -> applyTree(e, d)
      [] e.pc = "node" -> applyNode(e, d)
      [] e.pc = "anno" -> applyAnnotation(e, d)

\* serveNewThread and serveThreadView answer the caller when the call returns
formAnswer(e) ==
    IF e.err # NoErr
    THEN [kind |-> "PostForm", status |-> 400, msg |-> "Tree Create Failed", body |-> <<>>]
    ELSE [kind |-> "PostForm", status |-> 303, msg |-> "", body |-> <<>>]

(***************************************************************************)
(* Inputs.                                                                 *)
(***************************************************************************)
SeqsUpTo(S, n) == UNION {[1..k -> S] : k \in 0..n}

\* the card name a client gives the descriptor with a temp id
CardOf(temp) ==
    CASE temp = "a" -> "A" [] temp = "b" -> "B" [] temp = "c" -> "C" [] OTHER -> "X"

\* descriptors without annotations over the temp ids temps
PlainDescs(temps) ==
    {[temp_id |-> t, parent_temp_id |-> q, card_name |-> CardOf(t), position |-> 0,
      annotations |-> <<>>] : t \in temps, q \in {NoTemp} \cup temps}

\* descriptors with annotations, blank fields and padded temp ids
SpecialDescs ==
    {[temp_id |-> "a", parent_temp_id |-> NoTemp, card_name |-> "A", position |-> 0,
      annotations |-> <<[kind |-> "", body |-> " n "]>>],
     [temp_id |-> "b", parent_temp_id |-> "a", card_name |-> "B", position |-> 1,
      annotations |-> <<[kind |-> "k", body |-> " "], [kind |-> "k", body |-> "n"]>>],
     [temp_id |-> "b", parent_temp_id |-> " ", card_name |-> " X", position |-> 0,
      annotations |-> <<>>],
     [temp_id |-> "b", parent_temp_id |-> " a", card_name |-> "B", position |-> 0,
      annotations |-> <<>>],
     [temp_id |-> " ", parent_temp_id |-> NoTemp, card_name |-> "X", position |-> 0,
      annotations |-> <<>>],
     [temp_id |-> "b", parent_temp_id |-> NoTemp, card_name |-> " ", position |-> 0,
      annotations |-> <<>>]}

TreesOver(descs, titles, n) ==
    [title : titles, is_primary : {FALSE}, nodes : SeqsUpTo(descs, n)]

RECURSIVE DescCount(_)
DescCount(payload) ==
    IF payload = <<>> THEN 0 ELSE Len(Head(payload).nodes) + DescCount(Tail(payload))

\* the payloads of k trees over descs with at most budget descriptors in all
RECURSIVE PayloadsOf(_, _, _, _)
PayloadsOf(descs, titles, k, budget) ==
    IF k = 0 THEN {<<>>}
    ELSE UNION {{<<t>> \o rest : rest \in PayloadsOf(descs, titles, k - 1,
                                                     budget - Len(t.nodes))}
                  : t \in TreesOver(descs, titles, budget)}

\* descriptors of the trees of a payload of several trees: a root, a
\* descriptor naming a temp id its tree may lack, and one that closes a cycle
SeveralDescs ==
    {[temp_id |-> "a", parent_temp_id |-> NoTemp, card_name |-> "A", position |-> 0,
      annotations |-> <<>>],
     [temp_id |-> "a", parent_temp_id |-> "b", card_name |-> "A", position |-> 0,
      annotations |-> <<>>],
     [temp_id |-> "b", parent_temp_id |-> "a", card_name |-> "B", position |-> 0,
      annotations |-> <<>>]}

\* the payloads of the batch specification: none; one tree over three temp
\* ids; one tree with special descriptors; several trees
BatchPayloads ==
    {<<>>}
    \cup PayloadsOf(PlainDescs({"a", "b", "c"}), {"T"}, 1, MaxDesc)
    \cup PayloadsOf(PlainDescs({"a"}) \cup SpecialDescs, {"T"}, 1, MaxDesc - 1)
    \cup UNION {PayloadsOf(SeveralDescs, {"T", " "}, k, MaxDesc)
                  : k \in 2..MaxPayloadTrees}

(***************************************************************************)
(* Bearer tokens.  Time is counted in ticks, TicksPerSecond to the second, *)
(* so that time.Now() is finer than the whole seconds of Unix().  A token  *)
(* is the sequence of its dot-separated parts; the payload part is the     *)
(* record of the JSON object it encodes, with decodes telling whether the  *)
(* part is base64 of a JSON object at all; the signature part is the HMAC  *)
(* of the two parts before it, which is equal for equal text and key only. *)
(***************************************************************************)
TicksPerSecond == 2
MaxTick == 3
MaxTokens == 1

Unix(t) == t \div TicksPerSecond

JWTSecret == "JANK_JWT_SECRET"
OtherSecret == "guessed"
JWTHeader == "HS256"

Sign(unsigned, key) == [over |-> unsigned, key |-> key]

Payload(sub, exp) == [decodes |-> TRUE, sub |-> sub, exp |-> exp]

Denied == [sub |-> "", ok |-> FALSE]

userExists(d, username) == username \in d.users

createUser(d, username) ==
    IF userExists(d, username)
    THEN [db |-> d, err |-> "username already exists"]
    ELSE [db |-> [d EXCEPT !.users = @ \cup {username}], err |-> NoErr]

createBoard(d, name) ==
    [db |-> [d EXCEPT !.boards = @ \cup {[id |-> d.nextBoard, name |-> name]},
                      !.nextBoard = @ + 1],
     id |-> d.nextBoard, err |-> NoErr]

issueJWT(username, ttl, t) ==
    IF username = ""
    THEN [token |-> <<>>, err |-> "missing username"]
    ELSE LET exp == Unix(t + ttl)
             unsigned == <<JWTHeader, Payload(username, exp)>>
         IN  [token |-> unsigned \o <<Sign(unsigned, JWTSecret)>>, err |-> NoErr]

verifyJWT(token, d, t) ==
    IF Len(token) # 3 THEN Denied
    ELSE LET unsigned == <<token[1], token[2]>>
             expected == Sign(unsigned, JWTSecret)
             payload == token[2]
         IN  IF token[3] # expected THEN Denied
             ELSE IF ~payload.decodes THEN Denied
             ELSE IF payload.sub = "" THEN Denied
             ELSE IF Unix(t) > payload.exp THEN Denied
             ELSE IF ~userExists(d, payload.sub) THEN Denied
             ELSE [sub |-> payload.sub, ok |-> TRUE]

\* strings.EqualFold on the scheme names that occur
ToLower(str) == IF str \in {"Bearer", "BEARER", "bearer"} THEN "bearer"
                ELSE IF str \in {"Basic", "basic"} THEN "basic" ELSE str
EqualFold(a, b) == ToLower(a) = ToLower(b)

\* the Authorization header: absent, or the parts SplitN cuts it into at
\* the first space
NoHeader == [present |-> FALSE, parts |-> 0, scheme |-> "", token |-> <<>>]
Header(scheme, token) == [present |-> TRUE, parts |-> 2, scheme |-> scheme, token |-> token]
OneWord(scheme) == [present |-> TRUE, parts |-> 1, scheme |-> scheme, token |-> <<>>]

getBearerUsername(header, d, t) ==
    IF ~header.present THEN Denied
    ELSE IF header.parts # 2 \/ ~EqualFold(header.scheme, "Bearer") THEN Denied
    ELSE verifyJWT(header.token, d, t)

requireAPIAuth(header, d, t) == getBearerUsername(header, d, t).ok

\* POST /boards with the insert and the authentication check exchanged
boardsHandlerCreateFirst(d, auth, decodeOK, storeOK, name) ==
    IF ~decodeOK THEN Answer(d, "PostBoard", 400, "invalid JSON", <<>>)
    ELSE LET r == createBoard(d, name)
         IN  IF ~auth THEN Answer(r.db, "PostBoard", 401, "Unauthorized", <<>>)
             ELSE IF ~storeOK \/ r.err # NoErr
             THEN Answer(d, "PostBoard", 500, "Failed to create board", <<>>)
             ELSE Answer(r.db, "PostBoard", 200, "", <<r.id>>)

\* POST /boards
boardsHandler(d, auth, decodeOK, storeOK, name) ==
    IF ~auth THEN Answer(d, "PostBoard", 401, "Unauthorized", <<>>)
    ELSE IF ~decodeOK THEN Answer(d, "PostBoard", 400, "invalid JSON", <<>>)
    ELSE LET r == createBoard(d, name)
         IN  IF ~storeOK \/ r.err # NoErr
             THEN Answer(d, "PostBoard", 500, "Failed to create board", <<>>)
             ELSE Answer(r.db, "PostBoard", 200, "", <<r.id>>)

(***************************************************************************)
(* State: the backing store db, the executions ex of applyCardTreePayload  *)
(* (one per request worker), the answer resp to the last request, the      *)
(* clock now in ticks and the tokens issued so far, each with the TTL and  *)
(* the time of its issue.                                                  *)
(***************************************************************************)
VARIABLES db, ex, resp, now, issued

vars == <<db, ex, resp, now, issued>>

\* the clock at its origin and no token issued yet
NoTokens ==
    /\ now = 0
    /\ issued = {}

Init ==
    /\ NoTokens
    /\ db = EmptyDB
    /\ ex = [p \in Procs |-> IdleEx]
    /\ resp = NoResp

\* no form submission is being handled
Quiet == \A p \in Procs : ex[p].pc \in {"idle", "done"}

\* a request handled in one step; the locals of a returned execution are gone
Handled(r) ==
    /\ db' = r.db
    /\ resp' = r.resp
    /\ ex' = [p \in Procs |-> IF ex[p].pc = "done" THEN IdleEx ELSE ex[p]]
    /\ UNCHANGED <<now, issued>>

PostBoardTree ==
    /\ Quiet
    /\ db.nextTree <= MaxTrees
    /\ \E auth \in BOOLEAN, decodeOK \in BOOLEAN, storeOK \in BOOLEAN, title \in {"", "T"} :
          Handled(boardTreesHandler(db, auth, decodeOK, storeOK, 1, title, TRUE))

PostThreadTree ==
    /\ Quiet
    /\ db.nextTree <= MaxTrees
    /\ \E auth \in BOOLEAN, decodeOK \in BOOLEAN, storeOK \in BOOLEAN, title \in {"", "T"} :
          Handled(threadTreesHandler(db, auth, decodeOK, storeOK, 1, title, TRUE))

GetTree ==
    /\ Quiet
    /\ \E treeID \in TreeIds : Handled(treeHandler(db, treeID))

PostNode ==
    /\ Quiet
    /\ db.nextNode <= MaxNodes
    /\ \E auth \in BOOLEAN, decodeOK \in BOOLEAN, storeOK \in BOOLEAN, treeID \in TreeIds,
          parentID \in {NULL} \cup NodeIds, cardName \in {"", "X"}, position \in ApiPositions :
          Handled(treeNodesHandler(db, auth, decodeOK, storeOK, treeID, parentID,
                                   cardName, position))

PatchNode ==
    /\ Quiet
    /\ \E auth \in BOOLEAN, decodeOK \in BOOLEAN, storeOK \in BOOLEAN, treeID \in TreeIds,
          nodeID \in NodeIds, parentID \in {NULL} \cup NodeIds, cardName \in {"", "X"},
          position \in ApiPositions :
          Handled(treeNodePatch(db, auth, decodeOK, storeOK, treeID, nodeID, parentID,
                                cardName, position))

DeleteNode ==
    /\ Quiet
    /\ \E auth \in BOOLEAN, storeOK \in BOOLEAN, treeID \in TreeIds, nodeID \in NodeIds :
          Handled(treeNodeDelete(db, auth, storeOK, treeID, nodeID))

PostAnnotation ==
    /\ Quiet
    /\ db.nextAnno <= MaxAnnos
    /\ \E auth \in BOOLEAN, decodeOK \in BOOLEAN, storeOK \in BOOLEAN, treeID \in TreeIds,
          nodeID \in NodeIds, kind \in {""}, body \in {"", "n"} :
          Handled(treeNodeAnnotationsHandler(db, auth, decodeOK, storeOK, treeID, nodeID,
                                             kind, body))

DeleteAnnotation ==
    /\ Quiet
    /\ \E auth \in BOOLEAN, storeOK \in BOOLEAN, treeID \in TreeIds, nodeID \in NodeIds,
          annotationID \in AnnoIds :
          Handled(treeNodeAnnotationHandler(db, auth, storeOK, treeID, nodeID, annotationID))

\* the execution p has moved to e over the store d; the form handler answers
\* when applyCardTreePayload has returned
Applied(p, e, d) ==
    /\ ex' = [q \in Procs |-> IF q = p THEN e
                               ELSE IF ex[q].pc = "done" THEN IdleEx ELSE ex[q]]
    /\ db' = d
    /\ resp' = IF e.pc = "done" THEN formAnswer(e) ELSE NoResp
    /\ UNCHANGED <<now, issued>>

\* serveNewThread, POST: the thread and its starter post are created, then
\* the payload is applied with the scope of the post
NewThread(p, payload) ==
    /\ Quiet
    /\ LET t == createThread(db)
           q == createPost(t.db)
       IN  Applied(p, applyStart("post", q.id, payload), q.db)

\* serveThreadView, POST: the reply is created in an existing thread, then
\* the payload is applied with the scope of the post
Reply(p, payload) ==
    /\ Quiet
    /\ db.nextThread > 1
    /\ LET q == createPost(db)
       IN  Applied(p, applyStart("post", q.id, payload), q.db)

StepTree(p) ==
    /\ ex[p].pc = "tree"
    /\ LET r == applyCardTreePayload(ex[p], db) IN Applied(p, r.ex, r.db)

StepNode(p) ==
    /\ ex[p].pc = "node"
    /\ LET r == applyCardTreePayload(ex[p], db) IN Applied(p, r.ex, r.db)

StepAnno(p) ==
    /\ ex[p].pc = "anno"
    /\ LET r == applyCardTreePayload(ex[p], db) IN Applied(p, r.ex, r.db)

(***************************************************************************)
(* The REST specification: the JSON handlers over the store, one request   *)
(* at a time.                                                              *)
(***************************************************************************)
Next ==
    \/ PostBoardTree
    \/ PostThreadTree
    \/ GetTree
    \/ PostNode
    \/ PatchNode
    \/ DeleteNode
    \/ PostAnnotation
    \/ DeleteAnnotation

Spec == Init /\ [][Next]_vars

(***************************************************************************)
(* The batch specification: a thread is started, or a thread is started    *)
(* without trees and a reply is posted to it, with a tree payload that is  *)
(* applied step by step to the empty tree store; then the trees are        *)
(* fetched.                                                                *)
(***************************************************************************)
SubmitThread ==
    /\ db.nextPost = 1
    /\ \E payload \in BatchPayloads : NewThread(1, payload)

SubmitReply ==
    /\ db.nextPost = 2
    /\ ex[1].pc = "done" /\ ex[1].payload = <<>>
    /\ \E payload \in BatchPayloads : Reply(1, payload)

FetchTree ==
    /\ ex[1].pc = "done"
    /\ \E treeID \in 1..MaxPayloadTrees : Handled(treeHandler(db, treeID))

NextBatch ==
    \/ SubmitThread
    \/ SubmitReply
    \/ StepTree(1)
    \/ StepNode(1)
    \/ StepAnno(1)
    \/ FetchTree

SpecBatch == Init /\ [][NextBatch]_vars

\* the batch specification with the request worker scheduled: a call of
\* applyCardTreePayload that can take a step eventually takes it
SpecBatchLive ==
    SpecBatch /\ WF_vars(StepTree(1)) /\ WF_vars(StepNode(1)) /\ WF_vars(StepAnno(1))

(***************************************************************************)
(* The view specification: the assembler applied to the stored node sets   *)
(* the REST handlers can leave behind.  Every node id is absent (never     *)
(* created, or deleted), a row of the viewed tree with any parent id and   *)
(* any position, or a row of another tree (whose parent and position the   *)
(* assembly of the viewed tree does not read).                             *)
(***************************************************************************)
ViewedTree == 1
OtherTree == 2
ViewTrees == {ViewedTree}

StoredRows ==
    [tree_id : {ViewedTree}, parent_id : 0..MaxViewNodes, position : Positions]
        \cup {[tree_id |-> OtherTree, parent_id |-> NULL, position |-> 0]}

AbsentRow == [tree_id |-> NULL, parent_id |-> NULL, position |-> 0]

StoredNodeSets ==
    {{[id |-> i, tree_id |-> f[i].tree_id, parent_id |-> f[i].parent_id,
       card_name |-> "X", position |-> f[i].position] : i \in {j \in DOMAIN f : f[j] # AbsentRow}}
       : f \in [1..MaxViewNodes -> {AbsentRow} \cup StoredRows]}

InitView ==
    /\ NoTokens
    /\ \E ns \in StoredNodeSets :
          db = [EmptyDB EXCEPT
                  !.trees = {[id |-> ViewedTree, scope_type |-> "board", scope_id |-> 1,
                              title |-> "T", is_primary |-> TRUE],
                             [id |-> OtherTree, scope_type |-> "thread", scope_id |-> 1,
                              title |-> "T", is_primary |-> TRUE]},
                  !.nextTree = 3, !.nodes = ns, !.nextNode = MaxViewNodes + 1]
    /\ ex = [p \in Procs |-> IdleEx]
    /\ resp = NoResp

ViewTree == \E treeID \in ViewTrees : Handled(treeHandler(db, treeID))

NextView == ViewTree

SpecView == InitView /\ [][NextView]_vars

(***************************************************************************)
(* The edit specification: nodes are deleted from the stored node sets the *)
(* REST handlers can leave behind, and the tree is fetched.  Every node id *)
(* is absent, a row of the viewed tree with any parent id, or a row of     *)
(* another tree; an annotation may be stored on the first node id.         *)
(***************************************************************************)
EditRows ==
    [tree_id : {ViewedTree}, parent_id : 0..MaxViewNodes, position : {0}]
        \cup {[tree_id |-> OtherTree, parent_id |-> NULL, position |-> 0]}

EditNodeSets ==
    {{[id |-> i, tree_id |-> f[i].tree_id, parent_id |-> f[i].parent_id,
       card_name |-> "X", position |-> f[i].position] : i \in {j \in DOMAIN f : f[j] # AbsentRow}}
       : f \in [1..MaxViewNodes -> {AbsentRow} \cup EditRows]}

EditAnnoSets == {{}, {[id |-> 1, node_id |-> 1, kind |-> "note", body |-> "n"]}}

InitEdit ==
    /\ NoTokens
    /\ \E ns \in EditNodeSets, as \in EditAnnoSets :
          db = [EmptyDB EXCEPT
                  !.trees = {[id |-> ViewedTree, scope_type |-> "board", scope_id |-> 1,
                              title |-> "T", is_primary |-> TRUE],
                             [id |-> OtherTree, scope_type |-> "thread", scope_id |-> 1,
                              title |-> "T", is_primary |-> TRUE]},
                  !.nextTree = 3, !.nodes = ns, !.nextNode = MaxViewNodes + 1,
                  !.annos = as, !.nextAnno = 2]
    /\ ex = [p \in Procs |-> IdleEx]
    /\ resp = NoResp

EditDelete ==
    \E nodeID \in 1..MaxViewNodes : Handled(treeNodeDelete(db, TRUE, TRUE, ViewedTree, nodeID))

EditFetch == Handled(treeHandler(db, ViewedTree))

NextEdit ==
    \/ EditDelete
    \/ EditFetch

SpecEdit == InitEdit /\ [][NextEdit]_vars

(***************************************************************************)
(* The token specification: users sign up, tokens are issued, time passes  *)
(* and the mutating endpoints are called with an Authorization header made *)
(* from the tokens in circulation.                                         *)
(***************************************************************************)
Usernames == {"erin"}
Ttls == {-1, 0, TicksPerSecond}

\* what a caller can put together from a token it holds: the token, the
\* token with a later exp under the old signature, the token signed with
\* another key, the token without its signature
Reworked(token) ==
    {token,
     <<token[1], [token[2] EXCEPT !.exp = @ + 1], token[3]>>,
     <<token[1], token[2], Sign(<<token[1], token[2]>>, OtherSecret)>>,
     <<token[1], token[2]>>}

\* inputs of verifyJWT that only the holder of the key can sign
Unissued ==
    {<<JWTHeader, Payload("", 1), Sign(<<JWTHeader, Payload("", 1)>>, JWTSecret)>>,
     <<JWTHeader, [Payload("erin", 1) EXCEPT !.decodes = FALSE],
       Sign(<<JWTHeader, [Payload("erin", 1) EXCEPT !.decodes = FALSE]>>, JWTSecret)>>}

Tokens == UNION {Reworked(i.token) : i \in issued}

Headers ==
    {NoHeader, OneWord("Bearer")}
    \cup {Header(scheme, token) : scheme \in {"Bearer", "bearer", "Basic"}, token \in Tokens}

InitAuth ==
    /\ NoTokens
    /\ db = EmptyDB
    /\ ex = [p \in Procs |-> IdleEx]
    /\ resp = NoResp

Signup ==
    /\ \E username \in Usernames : db' = createUser(db, username).db
    /\ resp' = NoResp
    /\ UNCHANGED <<ex, now, issued>>

IssueToken ==
    /\ Cardinality(issued) < MaxTokens
    /\ \E username \in Usernames \cup {""}, ttl \in Ttls :
          LET r == issueJWT(username, ttl, now)
          IN  issued' = IF r.err # NoErr THEN issued
                        ELSE issued \cup {[token |-> r.token, ttl |-> ttl, at |-> now]}
    /\ resp' = NoResp
    /\ UNCHANGED <<db, ex, now>>

Tick ==
    /\ now < MaxTick
    /\ now' = now + 1
    /\ UNCHANGED <<db, ex, resp, issued>>

CallBoards ==
    /\ db.nextBoard <= 1
    /\ \E h \in Headers :
          Handled(boardsHandler(db, requireAPIAuth(h, db, now), TRUE, TRUE, "b"))

CallBoardTrees ==
    /\ db.nextTree <= 1
    /\ \E h \in Headers :
          Handled(boardTreesHandler(db, requireAPIAuth(h, db, now), TRUE, TRUE, 1, "T", TRUE))

CallThreadTrees ==
    /\ db.nextTree <= 1
    /\ \E h \in Headers :
          Handled(threadTreesHandler(db, requireAPIAuth(h, db, now), TRUE, TRUE, 1, "T", TRUE))

CallTreeNodes ==
    /\ db.nextNode <= 1
    /\ \E h \in Headers :
          Handled(treeNodesHandler(db, requireAPIAuth(h, db, now), TRUE, TRUE, 1, NULL, "X", 0))

CallNodePatch ==
    \E h \in Headers :
       Handled(treeNodePatch(db, requireAPIAuth(h, db, now), TRUE, TRUE, 1, 1, NULL, "X", 0))

CallNodeDelete ==
    \E h \in Headers :
       Handled(treeNodeDelete(db, requireAPIAuth(h, db, now), TRUE, 1, 1))

CallAnnotations ==
    /\ db.nextAnno <= 1
    /\ \E h \in Headers :
          Handled(treeNodeAnnotationsHandler(db, requireAPIAuth(h, db, now), TRUE, TRUE,
                                             1, 1, "", "n"))

CallAnnotationDelete ==
    \E h \in Headers :
       Handled(treeNodeAnnotationHandler(db, requireAPIAuth(h, db, now), TRUE, 1, 1, 1))

NextAuth ==
    \/ Signup
    \/ IssueToken
    \/ Tick
    \/ CallBoards
    \/ CallBoardTrees
    \/ CallThreadTrees
    \/ CallTreeNodes
    \/ CallNodePatch
    \/ CallNodeDelete
    \/ CallAnnotations
    \/ CallAnnotationDelete

SpecAuth == InitAuth /\ [][NextAuth]_vars

(***************************************************************************)
(* The race specification: two request workers run POST annotation and     *)
(* DELETE node on the viewed tree, one store call per step.  Both handlers *)
(* first look the node's tree up and then write, outside any transaction;  *)
(* ex[p] holds the worker's position and the result of its lookup.         *)
(***************************************************************************)
\* POST /trees/{treeID}/nodes/{nodeID}/annotations from the answer owner of
\* getCardTreeNodeTreeID on, over the store d as it is by then
treeNodeAnnotationsAfterLookup(d, owner, decodeOK, storeOK, treeID, nodeID, kind, body) ==
    IF owner.err # NoErr
    THEN Answer(d, "PostAnnotation", NotFoundStatus, NotFoundMsg, <<>>)
    ELSE IF owner.treeID # treeID
    THEN Answer(d, "PostAnnotation", CrossTreeStatus, CrossTreeMsg, <<>>)
    ELSE IF ~decodeOK THEN Answer(d, "PostAnnotation", 400, "invalid JSON", <<>>)
    ELSE IF body = "" THEN Answer(d, "PostAnnotation", 400, "Body is required", <<>>)
    ELSE LET r == createCardTreeAnnotation(d, nodeID, IF kind = "" THEN "note" ELSE kind, body)
         IN  IF ~storeOK \/ r.err # NoErr
             THEN Answer(d, "PostAnnotation", 500, "Failed to create annotation", <<>>)
             ELSE Answer(r.db, "PostAnnotation", 200, "", <<r.id>>)

\* DELETE /trees/{treeID}/nodes/{nodeID} from the answer owner of
\* getCardTreeNodeTreeID on
treeNodeDeleteAfterLookup(d, owner, storeOK, treeID, nodeID) ==
    IF owner.err # NoErr
    THEN Answer(d, "DeleteNode", NotFoundStatus, NotFoundMsg, <<>>)
    ELSE IF owner.treeID # treeID
    THEN Answer(d, "DeleteNode", CrossTreeStatus, CrossTreeMsg, <<>>)
    ELSE LET r == deleteCardTreeNode(d, nodeID)
         IN  IF ~storeOK \/ r.err # NoErr
             THEN Answer(d, "DeleteNode", 500, "Failed to delete node", <<>>)
             ELSE Answer(r.db, "DeleteNode", 204, "", <<>>)

\* the worker has made its lookup for nodeID and holds the answer
LookedUp(pc, nodeID, owner) ==
    [IdleEx EXCEPT !.pc = pc, !.nodeID = nodeID, !.treeID = owner.treeID, !.err = owner.err]

OwnerOf(e) == [treeID |-> e.treeID, err |-> e.err]

AnnotateLookup(p) ==
    /\ ex[p].pc = "idle"
    /\ \E nodeID \in 1..MaxViewNodes :
          ex' = [ex EXCEPT ![p] = LookedUp("annotate", nodeID,
                                           getCardTreeNodeTreeID(db, nodeID))]
    /\ UNCHANGED <<db, resp, now, issued>>

AnnotateWrite(p) ==
    /\ ex[p].pc = "annotate"
    /\ db.nextAnno <= MaxAnnos + 1
    /\ LET r == treeNodeAnnotationsAfterLookup(db, OwnerOf(ex[p]), TRUE, TRUE, ViewedTree,
                                               ex[p].nodeID, "", "n")
       IN  db' = r.db /\ resp' = r.resp
    /\ ex' = [ex EXCEPT ![p] = IdleEx]
    /\ UNCHANGED <<now, issued>>

RemoveLookup(p) ==
    /\ ex[p].pc = "idle"
    /\ \E nodeID \in 1..MaxViewNodes :
          ex' = [ex EXCEPT ![p] = LookedUp("remove", nodeID,
                                           getCardTreeNodeTreeID(db, nodeID))]
    /\ UNCHANGED <<db, resp, now, issued>>

RemoveWrite(p) ==
    /\ ex[p].pc = "remove"
    /\ LET r == treeNodeDeleteAfterLookup(db, OwnerOf(ex[p]), TRUE, ViewedTree, ex[p].nodeID)
       IN  db' = r.db /\ resp' = r.resp
    /\ ex' = [ex EXCEPT ![p] = IdleEx]
    /\ UNCHANGED <<now, issued>>

NextRace ==
    \/ \E p \in Procs : AnnotateLookup(p)
    \/ \E p \in Procs : AnnotateWrite(p)
    \/ \E p \in Procs : RemoveLookup(p)
    \/ \E p \in Procs : RemoveWrite(p)

SpecRace == InitEdit /\ [][NextRace]_vars

(***************************************************************************)
(* The fault specification: the batch specification with a backing store   *)
(* that may fail any store call of applyCardTreePayload; the call returns  *)
(* the store's error as it is.                                             *)
(***************************************************************************)
StorageErr == "database is locked"

\* the step of the call at e makes a store call
MakesStoreCall(e, d) == applyCardTreePayload(e, d).db # d

StepFail(p) ==
    /\ ex[p].pc \in {"tree", "node", "anno"}
    /\ MakesStoreCall(ex[p], db)
    /\ Applied(p, applyReturn(ex[p], StorageErr), db)

NextFault ==
    \/ NextBatch
    \/ StepFail(1)

SpecFault == Init /\ [][NextFault]_vars

(***************************************************************************)
(* The pair specification: two request workers each submit a thread with a *)
(* tree payload and run applyCardTreePayload, their store calls            *)
(* interleaved in every order.  Both payloads are over the same temp ids.  *)
(***************************************************************************)
PairPayloads == PayloadsOf(SeveralDescs, {"T"}, 1, MaxNodes)

PairSubmit(p) ==
    /\ ex[p].pc = "idle"
    /\ db.nextPost <= Cardinality(Procs)
    /\ \E payload \in PairPayloads :
          LET t == createThread(db)
              q == createPost(t.db)
          IN  Applied(p, applyStart("post", q.id, payload), q.db)

NextPair ==
    \/ \E p \in Procs : PairSubmit(p)
    \/ \E p \in Procs : StepTree(p)
    \/ \E p \in Procs : StepNode(p)

SpecPair == Init /\ [][NextPair]_vars

(***************************************************************************)
(* Properties.                                                             *)
(***************************************************************************)
ParentIdOf(d, id) == IF HasNode(d, id) THEN NodeRow(d, id).parent_id ELSE NULL

RECURSIVE Ancestor(_, _, _)
\* the node id reached from id by following parent_id k times (NULL when the
\* chain has ended)
Ancestor(d, id, k) == IF k = 0 THEN id ELSE ParentIdOf(d, Ancestor(d, id, k - 1))

OnParentCycle(d, n) == \E k \in 1..Cardinality(d.nodes) : Ancestor(d, n.id, k) = n.id

\* C1: the parent pointers of the stored nodes contain no cycle: following
\* parent_id from a node never leads back to that node (a node that is its
\* own parent included).
NoParentCycle == \A n \in db.nodes : ~OnParentCycle(db, n)

\* C2: no stored node has a parent_id that names an existing node of another
\* tree.
ParentInSameTree ==
    \A n \in db.nodes :
        (n.parent_id # NULL /\ HasNode(db, n.parent_id))
            => NodeRow(db, n.parent_id).tree_id = n.tree_id

\* a node id the store has never assigned: the addressed node does not exist
AbsentNode == db.nextNode

IsSuccess(status) == status \in 200..399

\* C3: an authenticated PATCH or DELETE of /trees/t/nodes/n, or POST of
\* /trees/t/nodes/n/annotations, for an existing node n owned by another tree
\* than t is answered with status 400, which is not a success and differs
\* from the answer the same request gets for a node that does not exist, and
\* leaves the store as it was; the answer is "Node does not belong to tree"
\* (for PATCH: when the body decodes and carries a card name, which the
\* handler checks first).
CrossTreeRejected ==
    \A t \in TreeIds, n \in NodeIds :
        (HasNode(db, n) /\ NodeRow(db, n).tree_id # t) =>
            /\ \A decodeOK \in BOOLEAN, storeOK \in BOOLEAN, parentID \in {NULL} \cup NodeIds,
                  cardName \in {"", "X"}, position \in Positions :
                  LET r == treeNodePatch(db, TRUE, decodeOK, storeOK, t, n, parentID,
                                         cardName, position)
                      absent == treeNodePatch(db, TRUE, TRUE, storeOK, t, AbsentNode,
                                              parentID, "X", position)
                  IN  /\ r.db = db
                      /\ r.resp.status = CrossTreeStatus
                      /\ ~IsSuccess(r.resp.status)
                      /\ r.resp # absent.resp
                      /\ (decodeOK /\ cardName # "") => r.resp.msg = CrossTreeMsg
            /\ \A storeOK \in BOOLEAN :
                  LET r == treeNodeDelete(db, TRUE, storeOK, t, n)
                      absent == treeNodeDelete(db, TRUE, storeOK, t, AbsentNode)
                  IN  /\ r.db = db
                      /\ r.resp.status = CrossTreeStatus
                      /\ r.resp.msg = CrossTreeMsg
                      /\ ~IsSuccess(r.resp.status)
                      /\ r.resp # absent.resp
            /\ \A decodeOK \in BOOLEAN, storeOK \in BOOLEAN, body \in {"", "n"} :
                  LET r == treeNodeAnnotationsHandler(db, TRUE, decodeOK, storeOK, t, n,
                                                      "", body)
                      absent == treeNodeAnnotationsHandler(db, TRUE, decodeOK, storeOK, t,
                                                           AbsentNode, "", body)
                  IN  /\ r.db = db
                      /\ r.resp.status = CrossTreeStatus
                      /\ r.resp.msg = CrossTreeMsg
                      /\ ~IsSuccess(r.resp.status)
                      /\ r.resp # absent.resp

\* C3 has happened: a DELETE has been answered "Node does not belong to tree"
\* while a node with an annotation is stored
CrossTreeRejectedSeen ==
    /\ resp.kind = "DeleteNode"
    /\ resp.status = CrossTreeStatus /\ resp.msg = CrossTreeMsg
    /\ \E n \in db.nodes : \E a \in db.annos : a.node_id = n.id

\* C4: DELETE /trees/t/nodes/n/annotations/a for an existing node n owned by
\* another tree than t is answered with a client error and deletes no
\* annotation.
AnnotationDeleteChecksTree ==
    \A t \in TreeIds, n \in NodeIds, a \in AnnoIds :
        (HasNode(db, n) /\ NodeRow(db, n).tree_id # t) =>
            LET r == treeNodeAnnotationHandler(db, TRUE, TRUE, t, n, a)
            IN  /\ r.resp.status \in 400..499
                /\ r.db.annos = db.annos

\* the error applyCardTreePayload returns when a pass resolves nothing
ResolutionErr == "invalid tree payload"

Returned == ex[1].pc = "done"

\* the id of the tree row created for the k-th tree of the payload of e, NULL
\* when none was created
CreatedTreeId(e, k) ==
    IF Cardinality(e.made.trees) >= k
    THEN CHOOSE id \in e.made.trees : Cardinality({o \in e.made.trees : o < id}) = k - 1
    ELSE NULL

\* C5: when a payload of several trees is rejected because a tree fails
\* resolution, no tree, node or annotation written for the payload is stored.
RejectedPayloadLeavesNothing ==
    (Returned /\ Len(ex[1].payload) >= 2 /\ ex[1].err = ResolutionErr) =>
        /\ \A id \in ex[1].made.trees : ~HasTree(db, id)
        /\ \A id \in ex[1].made.nodes : ~HasNode(db, id)
        /\ \A id \in ex[1].made.annos : ~HasAnno(db, id)

IsSelfRef(desc) == desc.parent_temp_id = desc.temp_id

HasSelfRef(tree) == \E i \in 1..Len(tree.nodes) : IsSelfRef(tree.nodes[i])

DistinctTemps(nodes) ==
    \A i, j \in 1..Len(nodes) : i # j => nodes[i].temp_id # nodes[j].temp_id

\* C6: a batch tree (temp ids unique within the tree) with a descriptor whose
\* parent_temp_id is its own temp_id is rejected (the call returns an error at
\* that tree or before it), and no node is stored for that tree.
SelfReferenceRejected ==
    Returned =>
        \A k \in 1..Len(ex[1].payload) :
            (HasSelfRef(ex[1].payload[k]) /\ DistinctTemps(ex[1].payload[k].nodes)) =>
                /\ ex[1].err # NoErr
                /\ ex[1].ti <= k
                /\ {n \in db.nodes : n.tree_id = CreatedTreeId(ex[1], k)} = {}

\* the parent temp id a descriptor refers to: none when nil or blank
RefOf(desc) ==
    IF desc.parent_temp_id # NoTemp /\ TrimSpace(desc.parent_temp_id) # ""
    THEN desc.parent_temp_id
    ELSE NoTemp

RECURSIVE ChainAt(_, _, _)
\* the descriptor reached from descriptor i by following the parent temp id k
\* times: its index, 0 past a root, -1 past a temp id no descriptor carries
ChainAt(nodes, i, k) ==
    IF k = 0 THEN i
    ELSE LET j == ChainAt(nodes, i, k - 1)
         IN  IF j < 1 THEN j
             ELSE IF RefOf(nodes[j]) = NoTemp THEN 0
             ELSE IF \E c \in 1..Len(nodes) : nodes[c].temp_id = RefOf(nodes[j])
             THEN CHOOSE c \in 1..Len(nodes) : nodes[c].temp_id = RefOf(nodes[j])
             ELSE -1

\* descriptor i lies on a cycle of two or more descriptors
OnTempCycle(nodes, i) ==
    /\ ChainAt(nodes, i, 1) # i
    /\ \E k \in 2..Len(nodes) : ChainAt(nodes, i, k) = i

\* the descriptor names a parent temp id that no descriptor of its tree (and so
\* none the resolution of the tree can put into idMap) carries
IsDangling(tree, desc) ==
    /\ RefOf(desc) # NoTemp
    /\ \A c \in 1..Len(tree.nodes) : tree.nodes[c].temp_id # RefOf(desc)

HasBadReference(tree) ==
    \/ DistinctTemps(tree.nodes) /\ \E i \in 1..Len(tree.nodes) : OnTempCycle(tree.nodes, i)
    \/ \E i \in 1..Len(tree.nodes) : IsDangling(tree, tree.nodes[i])

FieldsValid(tree) ==
    /\ TrimSpace(tree.title) # ""
    /\ \A i \in 1..Len(tree.nodes) :
          TrimSpace(tree.nodes[i].card_name) # "" /\ TrimSpace(tree.nodes[i].temp_id) # ""

\* C7: a batch tree (temp ids unique within the tree) with a descriptor on a
\* cycle of two or more parent temp ids, or a batch tree with a descriptor
\* naming a parent temp id that no descriptor of the tree carries, is rejected:
\* the call returns an error, at that tree or before it, and never nil; when
\* it is that tree the call stops at and the tree's fields are valid, the
\* error is the resolution error.
BadReferenceRejected ==
    Returned =>
        \A k \in 1..Len(ex[1].payload) :
            HasBadReference(ex[1].payload[k]) =>
                /\ ex[1].err # NoErr
                /\ ex[1].ti <= k
                /\ (ex[1].ti = k /\ FieldsValid(ex[1].payload[k]))
                      => ex[1].err = ResolutionErr

\* C7 has happened: a tree with a root and a two-descriptor cycle was rejected
\* with the resolution error after the root was created
BadReferenceRejectedSeen ==
    /\ Returned
    /\ ex[1].err = ResolutionErr
    /\ Len(ex[1].payload) = 1
    /\ ex[1].made.nodes # {}
    /\ DistinctTemps(ex[1].payload[1].nodes)
    /\ \E i \in 1..Len(ex[1].payload[1].nodes) : OnTempCycle(ex[1].payload[1].nodes, i)

ChainDesc(temp, parent) ==
    [temp_id |-> temp, parent_temp_id |-> parent, card_name |-> CardOf(temp), position |-> 0,
     annotations |-> <<>>]

\* the three-level chain A -> B -> C in some descriptor order
IsChain(tree) ==
    /\ Len(tree.nodes) = 3
    /\ {tree.nodes[i] : i \in 1..3} =
          {ChainDesc("a", NoTemp), ChainDesc("b", "a"), ChainDesc("c", "b")}

\* C8: for the chain A -> B -> C submitted in any descriptor order the call
\* returns nil and fetching the tree yields A, B, C in that order with depths
\* 0, 1, 2.
ChainRoundTrip ==
    (Returned /\ Len(ex[1].payload) = 1 /\ IsChain(ex[1].payload[1])) =>
        /\ ex[1].err = NoErr
        /\ LET fetched == treeHandler(db, ex[1].treeID).resp
           IN  /\ fetched.status = 200
               /\ Len(fetched.body) = 3
               /\ [i \in 1..3 |-> fetched.body[i].card_name] = <<"A", "B", "C">>
               /\ [i \in 1..3 |-> fetched.body[i].depth] = <<0, 1, 2>>

\* C8 has happened: the chain submitted leaf first has been resolved
ChainRoundTripSeen ==
    /\ Returned
    /\ ex[1].err = NoErr
    /\ Len(ex[1].payload) = 1
    /\ ex[1].payload[1].nodes =
          <<ChainDesc("c", "b"), ChainDesc("b", "a"), ChainDesc("a", NoTemp)>>

\* the stored node has no parent that is a stored node of its own tree
IsRootLevel(d, row) ==
    \/ row.parent_id = NULL
    \/ ~\E p \in TreeNodes(d, row.tree_id) : p.id = row.parent_id

\* C9: in the assembled tree a node whose parent_id names a node of the same
\* tree has the depth of that parent plus 1, a node whose parent_id is null
\* or names no node of the tree has depth 0, and indent equals depth.
DepthIsParentPlusOne ==
    \A t \in ViewTrees :
        LET out == treeHandler(db, t).resp.body
        IN  \A i \in 1..Len(out) :
                /\ out[i].indent = out[i].depth
                /\ IF IsRootLevel(db, out[i])
                   THEN out[i].depth = 0
                   ELSE \E j \in 1..Len(out) :
                           /\ out[j].id = out[i].parent_id
                           /\ out[i].depth = out[j].depth + 1

\* C9 has happened: a fetched tree lists a root, a child of it and a node
\* promoted to the root level because its parent is not in the tree
DepthIsParentPlusOneSeen ==
    /\ resp.kind = "GetTree" /\ resp.status = 200
    /\ \E i, j \in 1..Len(resp.body) :
          /\ resp.body[i].depth = 1
          /\ resp.body[j].depth = 0 /\ resp.body[j].parent_id # NULL

\* two rows of an assembled tree are siblings: both at the root level, or
\* both children of the same stored parent
AreSiblings(d, r, q) ==
    /\ r.id # q.id
    /\ \/ IsRootLevel(d, r) /\ IsRootLevel(d, q)
       \/ ~IsRootLevel(d, r) /\ ~IsRootLevel(d, q) /\ r.parent_id = q.parent_id

\* C10: the assembled sequence is a pre-order traversal: a node below the
\* root level comes after its parent and before every later sibling of its
\* parent, and of two siblings the one with the smaller position, or with the
\* same position and the smaller id, comes first.
PreOrderSorted ==
    \A t \in ViewTrees :
        LET out == treeHandler(db, t).resp.body
        IN  /\ \A i \in 1..Len(out) :
                  ~IsRootLevel(db, out[i]) =>
                      \E j \in 1..(i - 1) :
                          /\ out[j].id = out[i].parent_id
                          /\ \A s \in (j + 1)..Len(out) :
                                AreSiblings(db, out[s], out[j]) => i < s
            /\ \A x, y \in 1..Len(out) :
                  (x < y /\ AreSiblings(db, out[x], out[y])) =>
                      \/ out[x].position < out[y].position
                      \/ out[x].position = out[y].position /\ out[x].id < out[y].id

\* C10 has happened: a fetched tree lists a node with a child before the
\* node's sibling, the sibling having the greater position and the smaller id
PreOrderSortedSeen ==
    /\ resp.kind = "GetTree" /\ resp.status = 200
    /\ Len(resp.body) = 3
    /\ resp.body[2].parent_id = resp.body[1].id
    /\ resp.body[3].depth = 0
    /\ resp.body[3].id < resp.body[1].id
    /\ resp.body[3].position > resp.body[1].position

\* the parent of a stored node when that parent is a stored node of the same
\* tree, else NULL
TreeParentOf(d, id) ==
    IF /\ HasNode(d, id)
       /\ NodeRow(d, id).parent_id # NULL
       /\ HasNode(d, NodeRow(d, id).parent_id)
       /\ NodeRow(d, NodeRow(d, id).parent_id).tree_id = NodeRow(d, id).tree_id
    THEN NodeRow(d, id).parent_id
    ELSE NULL

RECURSIVE TreeAncestor(_, _, _)
\* the node id reached from id by following TreeParentOf k times
TreeAncestor(d, id, k) ==
    IF k = 0 THEN id ELSE TreeParentOf(d, TreeAncestor(d, id, k - 1))

IsListed(body, id) == \E i \in 1..Len(body) : body[i].id = id

DepthOf(body, id) == body[CHOOSE i \in 1..Len(body) : body[i].id = id].depth

\* the nodes of n's tree, other than n, whose parent_id is n
ChildrenOf(d, n) == {c \in d.nodes : c.tree_id = n.tree_id /\ c.parent_id = n.id /\ c.id # n.id}

\* C11: DELETE of a node that has children removes only that node's row: the
\* children keep their parent_id, the annotations stay stored, and the next
\* fetch of the tree succeeds and lists each former child at depth 0 with its
\* descendants at their distance from it.
DeleteOrphansChildren ==
    \A n \in db.nodes :
        ChildrenOf(db, n) # {} =>
            LET r == treeNodeDelete(db, TRUE, TRUE, n.tree_id, n.id)
                out == treeHandler(r.db, n.tree_id).resp
            IN  /\ r.resp.status = 204
                /\ r.db.nodes = db.nodes \ {n}
                /\ r.db.annos = db.annos
                /\ r.db.trees = db.trees
                /\ out.status = 200
                /\ \A c \in ChildrenOf(db, n) :
                      /\ IsListed(out.body, c.id)
                      /\ DepthOf(out.body, c.id) = 0
                      /\ \A x \in TreeNodes(r.db, n.tree_id) :
                            \A k \in 1..Cardinality(db.nodes) :
                               TreeAncestor(r.db, x.id, k) = c.id =>
                                  IsListed(out.body, x.id) /\ DepthOf(out.body, x.id) = k

\* C11 has happened: a node with an annotation was deleted, and its former
\* child, which has a child of its own, and its annotation are still stored
DeleteOrphansChildrenSeen ==
    /\ resp.kind = "DeleteNode" /\ resp.status = 204
    /\ \E a \in db.annos : ~HasNode(db, a.node_id)
    /\ \E c, x \in db.nodes :
          /\ c.tree_id = ViewedTree /\ x.tree_id = ViewedTree
          /\ c.parent_id = 1 /\ ~HasNode(db, 1)
          /\ x.parent_id = c.id /\ x.id # c.id

\* x is a descendant of n: following parents within the tree from x reaches n
IsDescendant(d, x, n) == \E k \in 1..Cardinality(d.nodes) : TreeAncestor(d, x, k) = n

\* C12: after a PATCH that sets the parent_id of node n to another existing
\* node p of the same tree (p is neither n nor n's parent), in a tree whose
\* nodes were all listed by the fetch before, the fetch lists every node of
\* the tree, and every node that is neither n nor a descendant of n at the
\* depth it had before.
PatchMovesOnlySubtree ==
    \A t \in TreeIds, n \in NodeIds, p \in NodeIds :
        LET before == treeHandler(db, t).resp
            r == treeNodePatch(db, TRUE, TRUE, TRUE, t, n, p, "X", 0)
            after == treeHandler(r.db, t).resp
        IN  (/\ HasTree(db, t) /\ HasNode(db, n) /\ HasNode(db, p)
             /\ NodeRow(db, n).tree_id = t /\ NodeRow(db, p).tree_id = t
             /\ p # n /\ p # NodeRow(db, n).parent_id
             /\ \A x \in TreeNodes(db, t) : IsListed(before.body, x.id))
            => /\ r.resp.status = 204
               /\ after.status = 200
               /\ \A x \in TreeNodes(db, t) :
                     /\ IsListed(after.body, x.id)
                     /\ (x.id # n /\ ~IsDescendant(db, x.id, n))
                           => DepthOf(after.body, x.id) = DepthOf(before.body, x.id)

\* the errors applyCardTreePayload returns for an empty required field
ValidationErrs == {"tree title is required", "card name is required", "node id is required"}

\* C13: when a payload in which some tree has a blank title, or some
\* descriptor a blank card name or a blank temp id (and no tree has a cyclic
\* or dangling reference), has been applied, the call has returned a
\* validation error and has written no tree, node or annotation row.
ValidationBeforeWrites ==
    (/\ Returned
     /\ \E k \in 1..Len(ex[1].payload) : ~FieldsValid(ex[1].payload[k])
     /\ \A k \in 1..Len(ex[1].payload) : ~HasBadReference(ex[1].payload[k]))
    => /\ ex[1].err \in ValidationErrs
       /\ ex[1].made = [trees |-> {}, nodes |-> {}, annos |-> {}]

HasBlankBody(tree) ==
    \E i \in 1..Len(tree.nodes) : \E j \in 1..Len(tree.nodes[i].annotations) :
        TrimSpace(tree.nodes[i].annotations[j].body) = ""

\* C14: a payload with an annotation descriptor whose body is blank does not
\* end in success: the call returns an error.
BlankBodyRejected ==
    (Returned /\ \E k \in 1..Len(ex[1].payload) : HasBlankBody(ex[1].payload[k]))
        => ex[1].err # NoErr

\* C15: an authenticated POST /trees/t/nodes whose body decodes and carries
\* no card name is answered 400 "Card name is required" and leaves the store
\* as it was, whether tree t exists or not and whether or not the store would
\* carry out a write.
MissingCardNameRejected ==
    \A t \in TreeIds, parentID \in {NULL} \cup NodeIds, storeOK \in BOOLEAN,
       position \in Positions :
        LET r == treeNodesHandler(db, TRUE, TRUE, storeOK, t, parentID, "", position)
        IN  /\ r.resp.status = 400
            /\ r.resp.msg = "Card name is required"
            /\ r.db = db

\* C15 has happened: a POST without card name was answered 400 while one of
\* the two trees exists and a node is stored
MissingCardNameRejectedSeen ==
    /\ resp.kind = "PostNode"
    /\ resp.status = 400 /\ resp.msg = "Card name is required"
    /\ Cardinality(db.trees) = 1
    /\ db.nodes # {}

\* C17: every stored tree has the scope type "board" or "thread".
ScopeTypeBoardOrThread == \A t \in db.trees : t.scope_type \in {"board", "thread"}

PrimaryIn(d, scopeType, scopeID) ==
    {t \in d.trees : t.scope_type = scopeType /\ t.scope_id = scopeID /\ t.is_primary}

\* C18: POST of a tree with is_primary = true to a board or thread that
\* already holds a primary tree answers 200 and adds the new primary tree to
\* the stored trees, every one of which is left as it was.
PrimaryTreesCoexist ==
    \A scopeID \in {1} :
        /\ PrimaryIn(db, "board", scopeID) # {} =>
              LET r == boardTreesHandler(db, TRUE, TRUE, TRUE, scopeID, "T", TRUE)
              IN  /\ r.resp.status = 200
                  /\ db.trees \subseteq r.db.trees
                  /\ PrimaryIn(r.db, "board", scopeID) =
                        PrimaryIn(db, "board", scopeID) \cup (r.db.trees \ db.trees)
                  /\ Cardinality(r.db.trees \ db.trees) = 1
        /\ PrimaryIn(db, "thread", scopeID) # {} =>
              LET r == threadTreesHandler(db, TRUE, TRUE, TRUE, scopeID, "T", TRUE)
              IN  /\ r.resp.status = 200
                  /\ db.trees \subseteq r.db.trees
                  /\ PrimaryIn(r.db, "thread", scopeID) =
                        PrimaryIn(db, "thread", scopeID) \cup (r.db.trees \ db.trees)
                  /\ Cardinality(r.db.trees \ db.trees) = 1

\* C18 has happened: a second primary tree was created in a board
PrimaryTreesCoexistSeen ==
    /\ resp.kind = "PostBoardTree" /\ resp.status = 200
    /\ Cardinality(PrimaryIn(db, "board", 1)) = 2

\* the node row n was created for the descriptor desc of the payload tree
\* tree, whose tree row has the id treeID, over the store d
CreatedInOrder(d, n, desc, tree, treeID) ==
    /\ n.tree_id = treeID
    /\ HasTree(d, treeID)
    /\ n.card_name = TrimSpace(desc.card_name)
    /\ IF RefOf(desc) = NoTemp
       THEN n.parent_id = NULL
       ELSE /\ HasNode(d, n.parent_id)
            /\ NodeRow(d, n.parent_id).tree_id = treeID
            /\ \E c \in 1..Len(tree.nodes) :
                  /\ tree.nodes[c].temp_id = RefOf(desc)
                  /\ NodeRow(d, n.parent_id).card_name = TrimSpace(tree.nodes[c].card_name)

\* C20: a step of the resolution that creates a node creates it in the tree
\* created for the batch tree being resolved; when the descriptor has a
\* non-blank parent temp id, the node of a descriptor of that tree carrying
\* the temp id is already stored in that tree and its id is the new node's
\* parent_id; when the parent temp id is nil or blank, the parent_id is null.
ParentCreatedFirst ==
    [][\A n \in db'.nodes \ db.nodes :
          /\ ex[1].pc = "node"
          /\ ex[1].treeID = CreatedTreeId(ex[1], ex[1].ti)
          /\ CreatedInOrder(db, n, ex[1].pending[ex[1].i], ex[1].payload[ex[1].ti],
                            ex[1].treeID)]_vars

\* C20 has happened: a child listed before its parent was deferred and then
\* created under the parent's real id, in the second tree of a payload
ParentCreatedFirstSeen ==
    /\ Returned /\ ex[1].err = NoErr
    /\ Len(ex[1].payload) = 2
    /\ Len(ex[1].payload[2].nodes) = 2
    /\ RefOf(ex[1].payload[2].nodes[1]) # NoTemp
    /\ \E n, q \in db.nodes :
          /\ n.tree_id = ex[1].treeID /\ q.tree_id = ex[1].treeID
          /\ n.parent_id = q.id /\ q.id < n.id

\* the header carries a token that was issued, names an existing user and
\* whose exp the clock has not passed, under the Bearer scheme
ValidBearer(h) ==
    /\ h.present /\ h.parts = 2
    /\ h.scheme \in {"Bearer", "bearer", "BEARER"}
    /\ \E i \in issued :
          /\ h.token = i.token
          /\ i.token[2].sub \in db.users
          /\ Unix(now) <= i.token[2].exp

\* the answers of the mutating endpoints to a request for which
\* getBearerUsername has given auth
Mutations(d, auth) ==
    {boardsHandler(d, auth, decodeOK, TRUE, "b") : decodeOK \in BOOLEAN}
    \cup {boardTreesHandler(d, auth, TRUE, TRUE, 1, title, TRUE) : title \in {"", "T"}}
    \cup {threadTreesHandler(d, auth, TRUE, TRUE, 1, title, TRUE) : title \in {"", "T"}}
    \cup {treeNodesHandler(d, auth, TRUE, TRUE, treeID, NULL, cardName, 0)
             : treeID \in 1..2, cardName \in {"", "X"}}
    \cup {treeNodePatch(d, auth, TRUE, TRUE, treeID, 1, NULL, "Y", 0) : treeID \in 1..2}
    \cup {treeNodeDelete(d, auth, TRUE, treeID, 1) : treeID \in 1..2}
    \cup {treeNodeAnnotationsHandler(d, auth, TRUE, TRUE, treeID, 1, "", body)
             : treeID \in 1..2, body \in {"", "n"}}
    \cup {treeNodeAnnotationHandler(d, auth, TRUE, treeID, 1, 1) : treeID \in 1..2}

AcceptedOnlyIfValid(token) ==
    verifyJWT(token, db, now).ok =>
        /\ Len(token) = 3
        /\ token[3] = Sign(<<token[1], token[2]>>, JWTSecret)
        /\ token[2].sub # ""
        /\ token[2].sub \in db.users
        /\ Unix(now) <= token[2].exp

\* C19: verifyJWT accepts a token only when its signature matches, its
\* subject is non-empty and names an existing user and the current time is
\* not later than its exp; and a token issued with a negative TTL is
\* rejected by every verification after its issue.
NegativeTTLRejected ==
    /\ \A token \in Tokens \cup Unissued : AcceptedOnlyIfValid(token)
    /\ \A i \in issued : i.ttl < 0 => ~verifyJWT(i.token, db, now).ok

\* the descriptors of the tree have card names and distinct temp ids, and
\* every chain of parent temp ids ends at a root descriptor of the tree
IsForest(tree) ==
    /\ FieldsValid(tree)
    /\ DistinctTemps(tree.nodes)
    /\ \A i \in 1..Len(tree.nodes) :
          \E k \in 1..Len(tree.nodes) : ChainAt(tree.nodes, i, k) = 0

\* the rows of the tree treeID mirror the descriptors of tree under idMap:
\* one row per descriptor, with the parent the parent temp id names
MirrorsTempIds(d, idMap, tree, treeID) ==
    /\ Cardinality(TreeNodes(d, treeID)) = Len(tree.nodes)
    /\ Cardinality({en.v : en \in idMap}) = Len(tree.nodes)
    /\ \A i \in 1..Len(tree.nodes) :
          /\ MapHas(idMap, tree.nodes[i].temp_id)
          /\ HasNode(d, MapGet(idMap, tree.nodes[i].temp_id))
          /\ LET row == NodeRow(d, MapGet(idMap, tree.nodes[i].temp_id))
             IN  /\ row.tree_id = treeID
                 /\ row.card_name = TrimSpace(tree.nodes[i].card_name)
                 /\ row.parent_id = IF RefOf(tree.nodes[i]) = NoTemp THEN NULL
                                    ELSE MapGet(idMap, RefOf(tree.nodes[i]))

\* C21: a payload whose trees are forests with card names and distinct temp
\* ids resolves without error in whatever order the descriptors are listed;
\* every tree gets one node per descriptor, and the parent_id relation of
\* the created nodes is the parent temp id relation of the descriptors.
ForestResolvesInAnyOrder ==
    (/\ Returned /\ Len(ex[1].payload) > 0
     /\ \A k \in 1..Len(ex[1].payload) : IsForest(ex[1].payload[k])) =>
        /\ ex[1].err = NoErr
        /\ \A k \in 1..Len(ex[1].payload) :
              Cardinality(TreeNodes(db, CreatedTreeId(ex[1], k))) = Len(ex[1].payload[k].nodes)
        /\ LET last == ex[1].payload[Len(ex[1].payload)]
           IN  Len(last.nodes) > 0 => MirrorsTempIds(db, ex[1].idMap, last, ex[1].treeID)

\* C21 has happened: a forest listed grandchild first, root second, child
\* last was resolved
ForestResolvesInAnyOrderSeen ==
    /\ Returned /\ ex[1].err = NoErr
    /\ Len(ex[1].payload) = 1
    /\ ex[1].payload[1].nodes =
          <<ChainDesc("c", "b"), ChainDesc("a", NoTemp), ChainDesc("b", "a")>>
    /\ Cardinality(db.nodes) = 3

\* the call is between its first store call and its return
Running == ex[1].pc \in {"tree", "node", "anno"}

\* the step ends a pass over pending and begins the next pass of the tree
NextPass ==
    /\ ex[1].pc \in {"node", "anno"}
    /\ ex'[1].pc = "node" /\ ex'[1].i = 1 /\ ex[1].i = Len(ex[1].pending)

\* C22: applyCardTreePayload returns for every payload; a pass over pending
\* is followed by another pass of the same tree only if it created a node,
\* that is, the next pass has fewer descriptors, and at least one; a pass
\* never has more descriptors than the tree, so a tree has at most as many
\* passes as descriptors.
PassesShrinkAndReturn ==
    /\ [][NextPass =>
            /\ ex'[1].ti = ex[1].ti
            /\ Len(ex'[1].pending) < Len(ex[1].pending)
            /\ Len(ex'[1].pending) > 0
            /\ Len(ex[1].pending) <= Len(ex[1].payload[ex[1].ti].nodes)]_vars
    /\ (Running ~> Returned)

\* C22 has happened: a chain listed leaf first took three passes, the last
\* over the single descriptor left
PassesShrinkAndReturnSeen ==
    /\ Returned /\ ex[1].err = NoErr
    /\ Len(ex[1].payload) = 1
    /\ Len(ex[1].payload[1].nodes) = 3
    /\ ex[1].pending = <<ChainDesc("c", "b")>>
    /\ ex[1].payload[1].nodes[1] = ChainDesc("c", "b")
    /\ ex[1].payload[1].nodes[2] = ChainDesc("b", "a")

\* the annotation row a is written by a step of the call for the annotation
\* descriptor it is at, on the node created last, which is the node of the
\* descriptor that carries the annotation
WrittenForOwnNode(a) ==
    /\ ex[1].pc = "anno"
    /\ a.node_id = ex[1].nodeID
    /\ a.node_id \in ex[1].made.nodes
    /\ a.node_id = db.nextNode - 1
    /\ HasNode(db, a.node_id)
    /\ NodeRow(db, a.node_id).card_name = TrimSpace(ex[1].pending[ex[1].i].card_name)
    /\ NodeRow(db, a.node_id).tree_id = ex[1].treeID
    /\ a.body = TrimSpace(ex[1].pending[ex[1].i].annotations[ex[1].ai].body)

\* C23: an annotation row is written only by the step that follows the
\* creation of the node of its own descriptor, with that node's id; so when
\* the call has returned every annotation is on a node the call created,
\* and the descriptors left unresolved, which have no node, have none.
AnnotationFollowsNode ==
    /\ [][\A a \in db'.annos \ db.annos : WrittenForOwnNode(a)]_vars
    /\ [](Returned =>
            \A a \in db.annos : a.node_id \in ex[1].made.nodes /\ HasNode(db, a.node_id))

\* C23 has happened: a descriptor with annotations listed before its parent
\* was deferred, then created, and its annotation written
AnnotationFollowsNodeSeen ==
    /\ Returned /\ ex[1].err = NoErr
    /\ Len(ex[1].payload) = 1
    /\ Len(ex[1].payload[1].nodes) = 2
    /\ RefOf(ex[1].payload[1].nodes[1]) # NoTemp
    /\ Len(ex[1].payload[1].nodes[1].annotations) > 0
    /\ \E a \in db.annos : NodeRow(db, a.node_id).parent_id # NULL

\* the handlers in two steps, run without anything in between, are the
\* handlers in one step
LookupThenWriteIsHandler ==
    \A nodeID \in 1..MaxViewNodes :
       /\ treeNodeAnnotationsAfterLookup(db, getCardTreeNodeTreeID(db, nodeID), TRUE, TRUE,
                                         ViewedTree, nodeID, "", "n")
             = treeNodeAnnotationsHandler(db, TRUE, TRUE, TRUE, ViewedTree, nodeID, "", "n")
       /\ treeNodeDeleteAfterLookup(db, getCardTreeNodeTreeID(db, nodeID), TRUE, ViewedTree,
                                    nodeID)
             = treeNodeDelete(db, TRUE, TRUE, ViewedTree, nodeID)

\* C24: however a POST of an annotation on a node and a DELETE of that node
\* interleave, every annotation row is written while the node it names is
\* stored.
AnnotationOnlyOnStoredNode ==
    [][\A a \in db'.annos \ db.annos : HasNode(db, a.node_id)]_vars

\* the errors applyCardTreePayload makes itself, for a payload it rejects
PayloadErrs == ValidationErrs \cup {ResolutionErr}

\* C25: when a store call fails while a tree payload is applied, the
\* submission is answered with a server error, and not with the answer a
\* payload rejected for a validation or resolution failure gets.
StorageFailureIsServerError ==
    (Returned /\ ex[1].err = StorageErr) =>
        /\ resp.status >= 500
        /\ \A err \in PayloadErrs : resp # formAnswer(applyReturn(ex[1], err))

\* the descriptor desc of the tree k of the payload names a parent temp id
\* that no descriptor of its tree carries and a descriptor of another tree
\* of the payload does
RefersToOtherTree(payload, k, desc) ==
    /\ IsDangling(payload[k], desc)
    /\ \E j \in 1..Len(payload) : j # k /\
          \E c \in 1..Len(payload[j].nodes) : payload[j].nodes[c].temp_id = RefOf(desc)

\* C26: when a payload has a tree with a descriptor whose parent temp id is
\* carried only by descriptors of other trees of the payload, the call
\* returns an error at that tree or before it, the resolution error when it
\* reaches the tree and its fields are valid; and no stored node has a
\* parent in another tree than its own.
TempIdsArePerTree ==
    Returned =>
        /\ \A n \in db.nodes :
              n.parent_id # NULL =>
                 HasNode(db, n.parent_id) /\ NodeRow(db, n.parent_id).tree_id = n.tree_id
        /\ \A k \in 1..Len(ex[1].payload) :
              (\E i \in 1..Len(ex[1].payload[k].nodes) :
                  RefersToOtherTree(ex[1].payload, k, ex[1].payload[k].nodes[i])) =>
                 /\ ex[1].err # NoErr
                 /\ ex[1].ti <= k
                 /\ (ex[1].ti = k /\ FieldsValid(ex[1].payload[k]))
                       => /\ ex[1].err = ResolutionErr
                          /\ \A n \in TreeNodes(db, ex[1].treeID) : n.parent_id = NULL
                                 \/ NodeRow(db, n.parent_id).tree_id = ex[1].treeID

\* C26 has happened: the second tree of a payload named a temp id of the
\* first tree, whose node is stored, and was rejected
TempIdsArePerTreeSeen ==
    /\ Returned /\ ex[1].err = ResolutionErr
    /\ Len(ex[1].payload) = 2 /\ ex[1].ti = 2
    /\ Len(ex[1].payload[2].nodes) = 1
    /\ RefersToOtherTree(ex[1].payload, 2, ex[1].payload[2].nodes[1])
    /\ \E n \in db.nodes : n.tree_id = CreatedTreeId(ex[1], 1)
    /\ TreeNodes(db, ex[1].treeID) = {}

\* the number of places at which the fetched sequence lists the node id
TimesListed(body, id) == Cardinality({i \in 1..Len(body) : body[i].id = id})

\* C27: in every store the API can reach, a fetch of a stored tree lists
\* each stored node of the tree exactly once.
AssembledListsEveryNode ==
    \A t \in db.trees :
       LET fetched == treeHandler(db, t.id).resp
       IN  /\ fetched.status = 200
           /\ Len(fetched.body) = Cardinality(TreeNodes(db, t.id))
           /\ \A n \in TreeNodes(db, t.id) : TimesListed(fetched.body, n.id) = 1

\* the same on the stores without a parent cycle
AcyclicListsEveryNode == NoParentCycle => AssembledListsEveryNode

\* the place at which the fetched sequence lists the node id
PlaceOf(body, id) == CHOOSE i \in 1..Len(body) : body[i].id = id

\* C28: when a payload of one tree, a forest with distinct temp ids, has
\* been resolved, two descriptors with the same parent temp id (or both
\* roots) and the same position have node ids in the order of the input
\* list, and the fetched tree lists them in that order, wherever their
\* parent's descriptor stands in the list.
SiblingsKeepInputOrder ==
    (/\ Returned /\ ex[1].err = NoErr
     /\ Len(ex[1].payload) = 1 /\ IsForest(ex[1].payload[1])) =>
        LET nodes == ex[1].payload[1].nodes
            fetched == treeHandler(db, ex[1].treeID).resp
            idOf(i) == MapGet(ex[1].idMap, nodes[i].temp_id)
        IN  \A i, j \in 1..Len(nodes) :
               (/\ i < j
                /\ RefOf(nodes[i]) = RefOf(nodes[j])
                /\ nodes[i].position = nodes[j].position) =>
                   /\ idOf(i) < idOf(j)
                   /\ PlaceOf(fetched.body, idOf(i)) < PlaceOf(fetched.body, idOf(j))

\* the post, the thread with the id is stored: ids are given out in order
\* and no handler of the model deletes a post or a thread
PostStored(d, id) == id \in 1..(d.nextPost - 1)
ThreadStored(d, id) == id \in 1..(d.nextThread - 1)

\* C29: when a submission is answered with the Tree Create Failed page, the
\* post the request created before it applied the payload, the scope of the
\* call, is not stored, and neither is the thread when the request was the
\* one that started thread 1 with post 1.
FailedSubmissionLeavesNoPost ==
    (Returned /\ ex[1].err # NoErr) =>
        /\ resp.msg = "Tree Create Failed"
        /\ ~PostStored(db, ex[1].scopeID)
        /\ ex[1].scopeID = 1 => ~ThreadStored(db, 1)

\* the step writes the node row n for the execution p: in the tree the
\* execution has created and is at, under no parent or under a node the
\* execution has created in that tree for the temp id the descriptor names
WrittenByOwnExecution(p, n) ==
    /\ ex[p].pc = "node"
    /\ n.id \in ex'[p].made.nodes \ ex[p].made.nodes
    /\ \A q \in Procs \ {p} : n.id \notin ex'[q].made.nodes
    /\ n.tree_id = ex[p].treeID
    /\ n.tree_id \in ex[p].made.trees
    /\ \A q \in Procs \ {p} : n.tree_id \notin ex[q].made.trees
    /\ LET desc == ex[p].pending[ex[p].i]
       IN  IF RefOf(desc) = NoTemp
           THEN n.parent_id = NULL
           ELSE /\ n.parent_id \in ex[p].made.nodes
                /\ HasNode(db, n.parent_id)
                /\ NodeRow(db, n.parent_id).tree_id = n.tree_id
                /\ NodeRow(db, n.parent_id).card_name = CardOf(RefOf(desc))

\* C30: however the store calls of two executions of applyCardTreePayload
\* interleave, every node row is written by one execution, in a tree that
\* execution created, with a null parent_id or the id of a node the same
\* execution created in the same tree for the parent temp id; the rows of
\* the two executions are disjoint.
ExecutionsDoNotMix ==
    /\ [][\A n \in db'.nodes \ db.nodes : \E p \in Procs : WrittenByOwnExecution(p, n)]_vars
    /\ [](\A p, q \in Procs :
             p # q => /\ ex[p].made.nodes \cap ex[q].made.nodes = {}
                      /\ ex[p].made.trees \cap ex[q].made.trees = {})

\* C30 has happened: an execution created a child under its own parent node
\* after the other execution, using the same temp ids, had created a node
\* in between
ExecutionsDoNotMixSeen ==
    \E p, q \in Procs :
       /\ p # q
       /\ ex[p].payload = ex[q].payload
       /\ \E n \in db.nodes :
             /\ n.id \in ex[p].made.nodes
             /\ n.parent_id # NULL
             /\ \E m \in ex[q].made.nodes : n.parent_id < m /\ m < n.id

====
